---- MODULE Spec2Model ----
(***************************************************************************)
(* knitj: the incremental execution engine of the server mode.            *)
(*                                                                         *)
(* A source text is a sequence of lines; the parser turns it into cells,   *)
(* Document.update_from_source merges them into the ordered cell map,      *)
(* KnitjServer dispatches new code cells to the kernel, and the kernel's   *)
(* answers travel over two channels (iopub, shell), each read by its own   *)
(* worker, onto one in-process queue that Kernel._receiver drains into     *)
(* Document.process_message.                                               *)
(*                                                                         *)
(* The coordinator, the broadcaster and the batch conversion are          *)
(* specifications over one state: Spec, SpecSource and SpecKernel run the  *)
(* server's handlers and record in the variable registered what each call  *)
(* hands to Broadcaster.register_message; SpecReload adds a server that is *)
(* constructed again on the files it has left; SpecBroadcast runs          *)
(* Broadcaster.run and the websocket handlers on the messages handed to    *)
(* register_message; SpecConvert and SpecConvertFair run convert.          *)
(*                                                                         *)
(* Abstractions: text is handled a line at a time (a line is a string, a   *)
(* streamed text a sequence of characters); SHA-1 is collision free, so a  *)
(* hash is its tagged preimage; pygments, misaka and ansi2html are tagged  *)
(* conversions.                                                            *)
(***************************************************************************)
EXTENDS Naturals, Sequences, FiniteSets, TLC

VARIABLES
    pc,          \* KnitjServer: "new" | "constructed" | "running" | "failed" |
                 \* "reconstructed"; convert: "new" | "converting" | "converted"
    cells,       \* Document._cells: hash -> cell (the mapping)
    order,       \* Document._cells: the OrderedDict's key order
    hashids,     \* Kernel._hashids: msg_id -> hash, msg_id = 1, 2, ...
    requests,    \* the code sent with each execute request, by msg_id
    iopub,       \* kernel -> client, iopub channel (not yet read)
    shell,       \* kernel -> client, shell channel (not yet read)
    msg_queue,   \* Kernel._msg_queue
    watcher,     \* SourceWatcher.run task: "idle" | "running" | "dead"
    receiver,    \* Kernel._receiver task: "idle" | "running" | "dead"
    nchange,     \* file changes handled so far
    last,        \* what the last call of __init__, start or a handler did
    applied,     \* per msg_id: whether its STATUS idle was applied to a cell,
                 \* and whether a message of it was applied after that
    parsed,      \* the text of the last update_from_source that succeeded
    _frontmatter, \* Document._frontmatter
    _file_change, \* SourceWatcher._file_change: the paths of the events queued
    registered,  \* the messages the last call handed to
                 \* Broadcaster.register_message, in order
    _output,      \* the output file: None until this run writes it, then the
                 \* page written last
    introduced,  \* the hashes that a registered document message has listed
    _queue,      \* Broadcaster._queue
    _wss,        \* the set of websockets shared by the handler and Broadcaster
    bcast,       \* Broadcaster.run: where the task stands
    peers,       \* per browser: its connection, its handler, what it received
    nreg,        \* messages handed to register_message so far
    written,     \* convert: what was written to the output stream
    cpos,        \* convert: the place in the document of the cell awaited
    run          \* Kernel.run: where the task stands, the kernel process it
                 \* started, and the state of its three workers

\* the page that the coordinator hands on and writes
pageVars == << registered, _output, introduced >>

\* the broadcaster and the browsers
bcastVars == << _queue, _wss, bcast, peers, nreg >>

\* the batch conversion
convVars == << written, cpos >>

vars == << pc, cells, order, hashids, requests, iopub, shell, msg_queue,
           watcher, receiver, nchange, last, applied, parsed, _frontmatter,
           registered, _output, introduced, _queue, _wss, bcast, peers, nreg,
           written, cpos, _file_change, run >>

-----------------------------------------------------------------------------
(* Bounds *)

\* file changes handled by the watcher
MaxChanges == 2
\* execute requests sent to the kernel
MaxReq == 2

-----------------------------------------------------------------------------
(* Sequences *)

\* Python's None is the empty tuple, a value x that may be None is << x >>
None == << >>

Some(x) == << x >>

Range(s) == { s[i] : i \in 1..Len(s) }

Contains(s, x) == \E i \in 1..Len(s) : s[i] = x

\* index of the first element of s in set S, 0 when there is none
RECURSIVE FirstIn(_, _, _)
FirstIn(s, S, i) ==
    IF i > Len(s) THEN 0
    ELSE IF s[i] \in S THEN i
    ELSE FirstIn(s, S, i + 1)

\* s[a..b], empty when a > b
Slice(s, a, b) == IF a > b THEN << >> ELSE SubSeq(s, a, b)

\* s without its repeated elements, each kept at its first place
RECURSIVE Unique(_)
Unique(s) ==
    IF s = << >> THEN << >>
    ELSE LET r == Unique(Slice(s, 1, Len(s) - 1))
             x == s[Len(s)]
         IN  IF Contains(r, x) THEN r ELSE Append(r, x)

\* the elements of s that satisfy Test, in order
RECURSIVE SelectIn(_, _)
SelectIn(s, S) ==
    IF s = << >> THEN << >>
    ELSE IF Head(s) \in S THEN << Head(s) >> \o SelectIn(Tail(s), S)
    ELSE SelectIn(Tail(s), S)

-----------------------------------------------------------------------------
(* cell.py *)

\* MIME.TEXT_HTML
TEXT_HTML == "text/html"
\* MIME.TEXT_PLAIN
TEXT_PLAIN == "text/plain"

\* _md(content): the markdown rendered by misaka
_md(content) == << "<p>" >> \o content \o << "</p>" >>

\* Hash.from_string: sha1 of the string, kept as the tagged preimage
from_string(s) == << "sha1", s >>

\* TextCell.__init__
TextCell(content, born) ==
    [ kind    |-> "text",
      hashid  |-> from_string(<< "text" >> \o content),
      content |-> content,
      _html   |-> None,      \* BaseCell._html, the memo of the html property
      born    |-> born ]

\* the lines that re.match(#\s*::) accepts as modelines
ModelineLines == { "#::hide", "# ::hide", "#::" }

\* the flags a modeline gives: its lower-case letters, split at blanks
ModelineFlags(line) == IF line \in { "#::hide", "# ::hide" } THEN { "hide" } ELSE { }

\* CodeCell.__init__: the hash is taken from the code as given, the modeline
\* is cut off after that
CodeCell(code, born) ==
    LET m == code # << >> /\ Head(code) \in ModelineLines
    IN  [ kind    |-> "code",
          hashid  |-> from_string(<< "code" >> \o code),
          flags   |-> IF m THEN ModelineFlags(Head(code)) ELSE { },
          code    |-> IF m THEN Tail(code) ELSE code,
          _output |-> None,
          _error  |-> None,
          _stream |-> << >>,
          _done   |-> FALSE,     \* the future self._done is resolved
          _flags  |-> { },
          _html   |-> None,      \* BaseCell._html, the memo of the html property
          fired   |-> 0,         \* set_result calls on the current future
          calls   |-> 0,         \* set_done calls since the future was made
          born    |-> born ]     \* the parse that made this object

\* update_flags that reports a difference without copying the flags
update_flags_no_copy(cell, other) == cell

\* CodeCell.update_flags, the cell after the call
update_flags(cell, other) ==
    IF cell.flags # other.flags
    THEN [ cell EXCEPT !.flags = other.flags, !._html = None ]
    ELSE cell

\* CodeCell.update_flags, the value returned
update_flags_ret(cell, other) == cell.flags # other.flags

\* the last line of a text is dropped: join(split(s)[:-1])
RECURSIVE DropLastLine(_)
DropLastLine(s) ==
    IF s = << >> THEN << >>
    ELSE IF s[Len(s)] = "\n" THEN Slice(s, 1, Len(s) - 1)
    ELSE DropLastLine(Slice(s, 1, Len(s) - 1))

\* append_stream of a cell that shows what it printed last: the output it
\* had is dropped
append_stream_over_output(cell, s) ==
    IF Head(s) = "\r"
    THEN [ cell EXCEPT !._stream = DropLastLine(cell._stream) \o Tail(s),
                       !._output = None, !._html = None ]
    ELSE [ cell EXCEPT !._stream = cell._stream \o s, !._output = None,
                       !._html = None ]

\* CodeCell.append_stream
append_stream(cell, s) ==
    IF "_template" \in DOMAIN cell
    THEN \* JinjaCell.append_stream
         [ cell EXCEPT !._output = Some([ m \in { TEXT_HTML } |-> _md(s) ]),
                       !._html = None ]
    ELSE IF Head(s) = "\r"
    THEN [ cell EXCEPT !._stream = DropLastLine(cell._stream) \o Tail(s),
                       !._html = None ]
    ELSE [ cell EXCEPT !._stream = cell._stream \o s, !._html = None ]

\* CodeCell.set_output
set_output(cell, output) == [ cell EXCEPT !._output = Some(output), !._html = None ]

\* set_error that drops what the cell had printed and shown
set_error_alone(cell, error) ==
    [ cell EXCEPT !._error = Some(error), !._stream = << >>, !._output = None,
                  !._html = None ]

\* CodeCell.set_error
set_error(cell, error) == [ cell EXCEPT !._error = Some(error), !._html = None ]

\* reset that leaves the stream as it was
reset_keeps_stream(cell) ==
    [ cell EXCEPT !._output = None,
                  !._error  = None,
                  !._html   = None,
                  !._flags  = cell._flags \ { "done" },
                  !._done   = FALSE,
                  !.fired   = 0,
                  !.calls   = 0 ]

\* reset that makes a new completion and leaves the runtime flag done
reset_keeps_done_flag(cell) ==
    [ cell EXCEPT !._output = None,
                  !._error  = None,
                  !._stream = << >>,
                  !._html   = None,
                  !._done   = FALSE,
                  !.fired   = 0,
                  !.calls   = 0 ]

\* CodeCell.reset
reset(cell) ==
    [ cell EXCEPT !._output = None,
                  !._error  = None,
                  !._stream = << >>,
                  !._html   = None,
                  !._flags  = cell._flags \ { "done" },
                  !._done   = FALSE,
                  !.fired   = 0,
                  !.calls   = 0 ]

\* set_done without the test of self.done(): the completion is resolved at
\* every call
set_done_unguarded(cell) ==
    [ cell EXCEPT !._flags = (cell._flags \ { "evaluating" }) \cup { "done" },
                  !._html  = None,
                  !.calls  = cell.calls + 1,
                  !._done  = TRUE,
                  !.fired  = cell.fired + 1 ]

\* set_done that does not discard the runtime flag evaluating
set_done_keeps_evaluating(cell) ==
    LET c == [ cell EXCEPT !._flags = cell._flags \cup { "done" },
                           !._html  = None,
                           !.calls  = cell.calls + 1 ]
    IN  IF ~ c._done THEN [ c EXCEPT !._done = TRUE, !.fired = c.fired + 1 ]
        ELSE c

\* set_done that leaves the memoized html in place
set_done_keeps_memo(cell) ==
    LET c == [ cell EXCEPT !._flags = (cell._flags \ { "evaluating" }) \cup { "done" },
                           !.calls  = cell.calls + 1 ]
    IN  IF ~ c._done THEN [ c EXCEPT !._done = TRUE, !.fired = c.fired + 1 ]
        ELSE c

\* CodeCell.set_done
set_done(cell) ==
    LET c == [ cell EXCEPT !._flags = (cell._flags \ { "evaluating" }) \cup { "done" },
                           !._html  = None,
                           !.calls  = cell.calls + 1 ]
    IN  IF ~ c._done THEN [ c EXCEPT !._done = TRUE, !.fired = c.fired + 1 ]
        ELSE c

\* html.escape, a character at a time
escape(s) ==
    [ i \in 1..Len(s) |->
        CASE s[i] = "<" -> "&lt;"
          [] s[i] = ">" -> "&gt;"
          [] s[i] = "&" -> "&amp;"
          [] OTHER -> s[i] ]

\* pygments.highlight(code, PythonLexer(), HtmlFormatter())
highlight(code) == << "<div class=highlight>" >> \o code \o << "</div>" >>

\* the class names of a set of flags, as classes.extend(flags) lists them
RECURSIVE ClassList(_)
ClassList(S) ==
    IF S = { } THEN << >>
    ELSE LET x == CHOOSE y \in S : TRUE IN << x >> \o ClassList(S \ { x })

\* to_html that puts the error above the stream
output_html_error_first(cell) ==
    LET output == IF cell._output = None THEN << >>
                  ELSE IF TEXT_HTML \in DOMAIN cell._output[1]
                  THEN cell._output[1][TEXT_HTML]
                  ELSE << "<pre>" >> \o escape(cell._output[1][TEXT_PLAIN]) \o << "</pre>" >>
        stream == IF cell._stream # << >>
                  THEN << "<pre>" >> \o escape(cell._stream) \o << "</pre>" >> \o output
                  ELSE output
    IN  IF cell._error # None /\ cell._error[1] # << >>
        THEN << "<pre>" >> \o cell._error[1] \o << "</pre>" >> \o stream
        ELSE stream

\* CodeCell.to_html, the text put into the div of class output
output_html(cell) ==
    LET output == IF cell._output = None THEN << >>
                  ELSE IF TEXT_HTML \in DOMAIN cell._output[1]
                  THEN cell._output[1][TEXT_HTML]
                  ELSE << "<pre>" >> \o escape(cell._output[1][TEXT_PLAIN]) \o << "</pre>" >>
        error  == IF cell._error # None /\ cell._error[1] # << >>
                  THEN << "<pre>" >> \o cell._error[1] \o << "</pre>" >> \o output
                  ELSE output
    IN  IF cell._stream # << >>
        THEN << "<pre>" >> \o escape(cell._stream) \o << "</pre>" >> \o error
        ELSE error

\* TextCell.to_html and CodeCell.to_html. The text
\*   <div class="H C..."><div class="code">code</div><div class="output">output</div></div>
\* of a code cell is kept as the record of its parts: the first class H (the
\* hash), the classes after it, the highlighted code and the text inside the
\* output div; the text <div class="H text-cell">text</div> of a text cell
\* likewise
to_html(cell) ==
    IF cell.kind = "text"
    THEN [ hashid |-> cell.hashid, classes |-> << "text-cell" >>, code |-> None,
           output |-> None, text |-> _md(cell.content) ]
    ELSE [ hashid |-> cell.hashid,
           classes |-> << "code-cell" >> \o ClassList(cell.flags) \o ClassList(cell._flags),
           code |-> highlight(cell.code),
           output |-> output_html(cell),
           text |-> None ]

\* BaseCell.html, the value of the property
BaseCell_html(cell) == IF cell._html = None THEN to_html(cell) ELSE cell._html[1]

\* BaseCell.html, the cell after the property was read
BaseCell_html_read(cell) == [ cell EXCEPT !._html = Some(BaseCell_html(cell)) ]

-----------------------------------------------------------------------------
(* parser.py *)

ParsingError == "ParsingError"

\* the line that opens a python fence (three backquotes and python)
FENCE   == "[fence python]"
\* the line that closes a fence (three backquotes)
CLOSE   == "[fence]"
COPEN   == "<!--"
CCLOSE  == "-->"

\* parse_markdown, the while loop: text is what is left, buffer the prose
\* gathered so far, out the cells made so far
RECURSIVE parse_loop(_, _, _, _)
parse_loop(text, buffer, out, born) ==
    IF text = << >> THEN out
    ELSE
    LET m == FirstIn(text, { FENCE, COPEN }, 1)
    IN  IF m = 0
        THEN \* the end of the text matched: the rest is prose
             LET b == buffer \o text
             IN  IF b # << >> THEN Append(out, TextCell(b, born)) ELSE out
        ELSE IF text[m] = FENCE
        THEN LET b     == buffer \o Slice(text, 1, m - 1)
                 out1  == IF b # << >> THEN Append(out, TextCell(b, born)) ELSE out
                 rest  == Slice(text, m + 1, Len(text))
                 c     == FirstIn(rest, { CLOSE }, 1)
             IN  IF c = 0 THEN ParsingError
                 ELSE parse_loop(Slice(rest, c + 1, Len(rest)), << >>,
                                 Append(out1, CodeCell(Slice(rest, 1, c - 1), born)),
                                 born)
        ELSE \* a comment opens: everything up to the first comment end goes to the buffer
             LET c == FirstIn(text, { CCLOSE }, 1)
             IN  IF c = 0 THEN ParsingError
                 ELSE parse_loop(Slice(text, c + 1, Len(text)),
                                 buffer \o Slice(text, 1, c), out, born)

\* parse_markdown, the match of the frontmatter pattern: the text begins with
\* a line --- and the match ends at the last line --- that a line end
\* follows; 0 when the pattern does not match
frontmatter_end(text) ==
    LET closing == { i \in 2..(Len(text) - 1) : text[i] = "---" }
    IN  IF text # << >> /\ Head(text) = "---" /\ closing # { }
        THEN CHOOSE i \in closing : \A j \in closing : j <= i
        ELSE 0

\* yaml.load of the frontmatter lines
yaml_load(lines) == << "yaml" >> \o lines

\* parse_markdown (the cell list; ParsingError when a fence or a comment is
\* left open): the frontmatter is taken from the text before its cells are
\* read
parse_markdown(text, born) ==
    parse_loop(Slice(text, frontmatter_end(text) + 1, Len(text)), << >>, << >>,
               born)

\* Parser.parse for the markdown format, the cell list
parse(text, born) == parse_markdown(text, born)

\* Parser.parse for the markdown format, the frontmatter it returns beside the
\* cell list: None when the text has none
parse_frontmatter(text) ==
    IF frontmatter_end(text) = 0 THEN None
    ELSE Some(yaml_load(Slice(text, 2, frontmatter_end(text) - 1)))

\* the lines that open a prose cell in a python source: the marker # ::> or
\* #::> alone, followed by j, followed by other text
MARK    == "# ::>"
MARK0   == "#::>"
MARKJ   == "# ::>j"
MARKT   == "# ::> Title"
MarkerLines == { MARK, MARK0, MARKJ, MARKT }

\* what a marker line holds after the match of # ?::>
after_marker(line) ==
    CASE line = MARKJ -> "j"
      [] line = MARKT -> " Title"
      [] OTHER        -> ""

\* the lines that begin with the character #
HashLines ==
    MarkerLines \cup ModelineLines
        \cup { "#", "# Text", "# More", "# ---", "# title: py", "# ::%time" }

\* the blank lines
BlankLines == { "", " " }

\* re.sub of # ? at the start of a line by nothing
unhash(line) ==
    CASE line = "#"           -> ""
      [] line = "# Text"      -> "Text"
      [] line = "# More"      -> "More"
      [] line = "# ---"       -> "---"
      [] line = "# title: py" -> "title: py"
      [] line = "# ::%time"   -> "::%time"
      [] line = "# ::hide"    -> "::hide"
      [] line = "#::hide"     -> "::hide"
      [] line = "#::"         -> "::"
      [] line = MARK          -> "::>"
      [] line = MARK0         -> "::>"
      [] line = MARKJ         -> "::>j"
      [] line = MARKT         -> "::> Title"
      [] OTHER                -> line

\* re.sub of #\s*::% at the start of a line by %
magic(line) == IF line = "# ::%time" THEN "%time" ELSE line

\* str.rstrip on a text given by its lines
RECURSIVE rstrip(_)
rstrip(text) ==
    IF text # << >> /\ text[Len(text)] \in BlankLines
    THEN rstrip(Slice(text, 1, Len(text) - 1))
    ELSE text

\* str.strip on a text given by its lines
RECURSIVE strip(_)
strip(text) ==
    IF text # << >> /\ Head(text) \in BlankLines THEN strip(Tail(text))
    ELSE rstrip(text)

\* the index of the first line of s that does not begin with #, 0 when there
\* is none
RECURSIVE FirstNotHash(_, _)
FirstNotHash(s, i) ==
    IF i > Len(s) THEN 0
    ELSE IF s[i] \notin HashLines THEN i
    ELSE FirstNotHash(s, i + 1)

\* JinjaCell.__init__: a code cell that prints the rendered template under a
\* hide modeline
JinjaCell(template, born) ==
    CodeCell(<< "# ::hide", "print(jinja2.Template(" >> \o template
                 \o << ").render(locals()))" >>, born)
        @@ [ _template |-> template ]

IndexError     == "IndexError"
AssertionError == "AssertionError"

\* parse_python, the while loop: text is what is left after rstrip, out the
\* cells made so far. The search for the end of a prose cell matches a line
\* start that # does not follow, or else the end of the text, so that it
\* always matches; chunk[0] is then read from what the marker is followed by
RECURSIVE python_loop(_, _, _)
python_loop(text, out, born) ==
    IF text = << >> THEN out
    ELSE
    LET m == FirstIn(text, MarkerLines, 1)
    IN  IF m = 0
        THEN \* the end of the text matched: the rest is code
             LET b == strip(text)
             IN  IF b # << >>
                 THEN Append(out, CodeCell([ i \in 1..Len(b) |-> magic(b[i]) ], born))
                 ELSE out
        ELSE
        LET b     == strip(Slice(text, 1, m - 1))
            out1  == IF b # << >>
                     THEN Append(out, CodeCell([ i \in 1..Len(b) |-> magic(b[i]) ], born))
                     ELSE out
            first == after_marker(text[m])
            rest  == Slice(text, m + 1, Len(text))
            c     == FirstNotHash(rest, 1)
            prose == IF c = 0 THEN rest ELSE Slice(rest, 1, c - 1)
            left  == IF c = 0 THEN << >> ELSE Slice(rest, c, Len(rest))
        IN  IF first = "" /\ rest = << >> THEN IndexError
            ELSE IF first \notin { "", "j" } THEN AssertionError
            ELSE
            LET chunk == strip(prose)
                md    == [ i \in 1..Len(chunk) |-> unhash(chunk[i]) ]
            IN  python_loop(left,
                            Append(out1, IF first = "j" THEN JinjaCell(md, born)
                                         ELSE TextCell(md, born)),
                            born)

\* parse_python, the match of the frontmatter pattern: the text begins with
\* a line # --- and the match ends at the last line # --- that a line end
\* follows and that only lines beginning with # and a blank come before; 0
\* when the pattern does not match
python_frontmatter_end(text) ==
    LET spaced  == HashLines \ { "#", "#::hide", "#::", MARK0 }
        closing == { i \in 2..(Len(text) - 1) :
                       /\ text[i] = "# ---"
                       /\ \A j \in 2..(i - 1) : text[j] \in spaced }
    IN  IF text # << >> /\ Head(text) = "# ---" /\ closing # { }
        THEN CHOOSE i \in closing : \A j \in closing : j <= i
        ELSE 0

\* parse_python (the cell list, or the error that the loop raises)
parse_python(text, born) ==
    python_loop(rstrip(Slice(text, python_frontmatter_end(text) + 1, Len(text))),
                << >>, born)

\* parse_python, the frontmatter it returns beside the cell list: None when
\* the text has none
parse_python_frontmatter(text) ==
    LET e == python_frontmatter_end(text)
    IN  IF e = 0 THEN None
        ELSE Some(yaml_load([ i \in 1..(e - 2) |-> unhash(text[i + 1]) ]))

-----------------------------------------------------------------------------
(* document.py *)

NoError == "NoError"

\* the elements of s once each, each at its last place
RECURSIVE UniqueLast(_)
UniqueLast(s) ==
    IF s = << >> THEN << >>
    ELSE IF Contains(Tail(s), Head(s)) THEN UniqueLast(Tail(s))
    ELSE << Head(s) >> \o UniqueLast(Tail(s))

\* the keys with a repeated key moved to its last place
OrderedKeys_last_place(cell_list) ==
    UniqueLast([ i \in 1..Len(cell_list) |-> cell_list[i].hashid ])

\* Document.update_from_source: the keys of OrderedDict((cell.hashid,
\* cell) for cell in cell_list), a repeated key kept at its first place
OrderedKeys(cell_list) == Unique([ i \in 1..Len(cell_list) |-> cell_list[i].hashid ])

\* the value the OrderedDict keeps for a key: the last cell given with it
ParsedCell(cell_list, hashid) ==
    LET I == { i \in 1..Len(cell_list) : cell_list[i].hashid = hashid }
    IN  cell_list[CHOOSE i \in I : \A j \in I : j <= i]

\* the new mapping built from the parsed cells alone
stored_fresh(cs, cell_list, hashid) == ParsedCell(cell_list, hashid)

\* self._cells.get(hashid, cell) in Document.update_from_source: the cell the
\* new mapping holds for hashid, a cell already stored (with the flags of the
\* parsed one copied onto it) or else the parsed one
stored(cs, cell_list, hashid) ==
    IF hashid \in DOMAIN cs
    THEN IF cs[hashid].kind = "code"
         THEN update_flags(cs[hashid], ParsedCell(cell_list, hashid))
         ELSE cs[hashid]
    ELSE ParsedCell(cell_list, hashid)

\* the frontmatter set from the text before its cells are parsed
update_frontmatter_unparsed(old, source) ==
    IF parse_frontmatter(source) = None THEN old ELSE parse_frontmatter(source)

\* Document.update_from_source, the frontmatter of the document after the
\* call: parse raises before it is set, and a text without one keeps the old
update_frontmatter(old, source) ==
    IF parse(source, 0) = ParsingError \/ parse_frontmatter(source) = None
    THEN old
    ELSE parse_frontmatter(source)

\* Document.update_from_source on the mapping cs with key order ord. The
\* result holds the new mapping and order, and, as hashes of cells of the new
\* mapping, the two returned lists (new_cells, and new_cells followed by the
\* cells with updated flags)
update_from_cell_list(cs, ord, cell_list) ==
    IF \/ cell_list = ParsingError
       \/ cell_list = IndexError
       \/ cell_list = AssertionError
    THEN \* parse raised: nothing of the document is assigned
         [ error |-> cell_list, cells |-> cs, order |-> ord,
           new_cells |-> << >>, updated_cells |-> << >> ]
    ELSE
    LET keys    == OrderedKeys(cell_list)
        old     == DOMAIN cs
        new     == SelectIn(keys, Range(keys) \ old)
        flagged == SelectIn(keys,
                     { h \in Range(keys) \cap old :
                         /\ cs[h].kind = "code"
                         /\ update_flags_ret(cs[h], ParsedCell(cell_list, h)) })
    IN  [ error |-> NoError,
          cells |-> [ h \in Range(keys) |-> stored(cs, cell_list, h) ],
          order |-> keys,
          new_cells |-> new,
          updated_cells |-> new \o flagged ]

\* Document.update_from_source of a document whose parser reads markdown
update_from_source(cs, ord, source, born) ==
    update_from_cell_list(cs, ord, parse(source, born))

\* Document.update_from_source of a document whose parser reads python
update_from_python_source(cs, ord, source, born) ==
    update_from_cell_list(cs, ord, parse_python(source, born))

\* Document.update_from_source of a python document, its frontmatter after
\* the call
update_python_frontmatter(old, source) ==
    IF \/ parse_python(source, 0) = ParsingError
       \/ parse_python(source, 0) = IndexError
       \/ parse_python(source, 0) = AssertionError
       \/ parse_python_frontmatter(source) = None
    THEN old
    ELSE parse_python_frontmatter(source)

\* ansi_convert('\n'.join(traceback), full=False)
ansi_convert(traceback) == << "ansi2html" >> \o traceback

\* process_message that takes the EXECUTE_REPLY for the end of the request
process_message_reply_done(cs, msg, hashid) ==
    IF hashid = None THEN [ cells |-> cs, cell |-> None, error |-> NoError ]
    ELSE IF hashid \notin DOMAIN cs
    THEN [ cells |-> cs, cell |-> None, error |-> NoError ]
    ELSE
    LET cell == cs[hashid]
        to(c) == [ cells |-> [ cs EXCEPT ![hashid] = c ], cell |-> hashid,
                   error |-> NoError ]
    IN  CASE msg.type = "execute_result" -> to(set_output(cell, msg.data))
          [] msg.type = "stream"         -> to(append_stream(cell, msg.text))
          [] msg.type = "display_data"   -> to(set_output(cell, msg.data))
          [] msg.type = "execute_reply"  ->
                IF msg.status = "error"
                THEN to(set_error(cell, ansi_convert(msg.traceback)))
                ELSE to(set_done(cell))
          [] msg.type = "error"          ->
                to(set_error(cell, ansi_convert(msg.traceback)))
          [] msg.type = "status"         -> to(cell)
          [] msg.type = "execute_input"  -> to(cell)
          [] OTHER -> [ cells |-> cs, cell |-> None, error |-> "ValueError" ]

\* process_message that takes a message of a type it does not know like an
\* EXECUTE_INPUT
process_message_skips_unknown(cs, msg, hashid) ==
    IF hashid = None THEN [ cells |-> cs, cell |-> None, error |-> NoError ]
    ELSE IF hashid \notin DOMAIN cs
    THEN [ cells |-> cs, cell |-> None, error |-> NoError ]
    ELSE
    LET cell == cs[hashid]
        to(c) == [ cells |-> [ cs EXCEPT ![hashid] = c ], cell |-> hashid,
                   error |-> NoError ]
    IN  CASE msg.type = "execute_result" -> to(set_output(cell, msg.data))
          [] msg.type = "stream"         -> to(append_stream(cell, msg.text))
          [] msg.type = "display_data"   -> to(set_output(cell, msg.data))
          [] msg.type = "execute_reply"  ->
                IF msg.status = "error"
                THEN to(set_error(cell, ansi_convert(msg.traceback)))
                ELSE to(cell)
          [] msg.type = "error"          ->
                to(set_error(cell, ansi_convert(msg.traceback)))
          [] msg.type = "status"         ->
                IF msg.execution_state = "idle" THEN to(set_done(cell))
                ELSE to(cell)
          [] msg.type = "execute_input"  -> to(cell)
          [] OTHER -> to(cell)

\* Document.process_message: the mapping after the call, the hash of the cell
\* returned (None when no cell is returned) and the error raised
process_message(cs, msg, hashid) ==
    IF hashid = None THEN [ cells |-> cs, cell |-> None, error |-> NoError ]
    ELSE IF hashid \notin DOMAIN cs
    THEN [ cells |-> cs, cell |-> None, error |-> NoError ]
    ELSE
    LET cell == cs[hashid]
        to(c) == [ cells |-> [ cs EXCEPT ![hashid] = c ], cell |-> hashid,
                   error |-> NoError ]
    IN  CASE msg.type = "execute_result" -> to(set_output(cell, msg.data))
          [] msg.type = "stream"         -> to(append_stream(cell, msg.text))
          [] msg.type = "display_data"   -> to(set_output(cell, msg.data))
          [] msg.type = "execute_reply"  ->
                IF msg.status = "error"
                THEN to(set_error(cell, ansi_convert(msg.traceback)))
                ELSE to(cell)
          [] msg.type = "error"          ->
                to(set_error(cell, ansi_convert(msg.traceback)))
          [] msg.type = "status"         ->
                IF msg.execution_state = "idle" THEN to(set_done(cell))
                ELSE to(cell)
          [] msg.type = "execute_input"  -> to(cell)
          [] OTHER -> [ cells |-> cs, cell |-> None, error |-> "ValueError" ]

\* Document.load_output_from_html, the loop over the code-cell tags of the
\* page; a tag is [hashid, classes, output]
\* a loop that makes a cell of every tag the document does not hold
RECURSIVE load_tags_adds(_, _)
load_tags_adds(cs, tags) ==
    IF tags = << >> THEN cs
    ELSE
    LET tag == Head(tags)
        c0  == IF tag.hashid \in DOMAIN cs THEN cs[tag.hashid]
               ELSE [ CodeCell(<< >>, 0) EXCEPT !.hashid = tag.hashid ]
        c1  == set_output(c0, [ m \in { TEXT_HTML } |-> tag.output ])
        c2  == IF "done" \in tag.classes THEN set_done(c1) ELSE c1
        c3  == IF "hide" \in tag.classes
               THEN [ c2 EXCEPT !.flags = c2.flags \cup { "hide" } ]
               ELSE c2
    IN  load_tags_adds([ h \in DOMAIN cs \cup { tag.hashid } |->
                           IF h = tag.hashid THEN c3 ELSE cs[h] ], Tail(tags))

RECURSIVE load_tags(_, _)
load_tags(cs, tags) ==
    IF tags = << >> THEN cs
    ELSE
    LET tag == Head(tags)
    IN  IF tag.hashid \in DOMAIN cs
        THEN LET c1 == set_output(cs[tag.hashid], [ m \in { TEXT_HTML } |-> tag.output ])
                 c2 == IF "done" \in tag.classes THEN set_done(c1) ELSE c1
                 c3 == IF "hide" \in tag.classes
                       THEN [ c2 EXCEPT !.flags = c2.flags \cup { "hide" } ]
                       ELSE c2
             IN  load_tags([ cs EXCEPT ![tag.hashid] = c3 ], Tail(tags))
        ELSE load_tags(cs, Tail(tags))

\* Document.load_output_from_html; html is [cells_tag, tags]: whether the page
\* has an element with id cells, and its code-cell tags
load_output_from_html(cs, html) ==
    IF ~ html.cells_tag THEN cs ELSE load_tags(cs, html.tags)

-----------------------------------------------------------------------------
(* The inputs: source texts, pages left by an earlier run, kernel answers *)

CodeA == "x = 1"
CodeB == "x = 2"

\* one code cell
TextA    == << FENCE, CodeA, CLOSE >>
\* the same with a text cell appended
TextAT   == << FENCE, CodeA, CLOSE, "Text" >>
\* the body edited
TextB    == << FENCE, CodeB, CLOSE >>
\* the same body under a hide modeline
TextHA   == << FENCE, "#::hide", CodeA, CLOSE >>
\* a cell given twice, around prose that holds a comment
TextATA  == << FENCE, CodeA, CLOSE, COPEN, "note", CCLOSE, "Text", FENCE, CodeA, CLOSE >>
\* a fence left open
TextOpen == << FENCE, CodeA >>
\* two code cells around prose
TextATB  == << FENCE, CodeA, CLOSE, "Text", FENCE, CodeB, CLOSE >>
\* one code cell under a frontmatter
TextFA   == << "---", "title: one", "---", FENCE, CodeA, CLOSE >>
\* the body edited under another frontmatter
TextGB   == << "---", "title: two", "---", FENCE, CodeB, CLOSE >>
\* a frontmatter over a fence left open
TextFOpen == << "---", "title: open", "---", FENCE, CodeB >>
\* a comment left open after a cell
TextACOpen == << FENCE, CodeA, CLOSE, COPEN, "note" >>

Texts == { TextA, TextAT, TextB, TextHA, TextATA, TextOpen }

\* texts with and without a frontmatter, some of which do not parse
ParseTexts == { TextA, TextFA, TextGB, TextOpen, TextFOpen, TextACOpen }

\* python sources: one code cell
PyA        == << CodeA >>
\* a prose cell that a blank line closes, over a code cell
PyTA       == << MARK, "# Text", "", CodeA >>
\* a prose cell left open after a code cell
PyOpen     == << CodeA, MARK, "# Text", "# More" >>
\* a marker as the last line
PyMarkLast == << CodeA, MARK0 >>
\* a marker followed by text on its line
PyTitle    == << CodeA, MARKT, "# Text" >>
\* a template between two code cells
PyJinja    == << CodeA, MARKJ, "# Text", CodeB >>
\* a frontmatter over a cell with a magic, and blank lines at the end
PyFront    == << "# ---", "# title: py", "# ---", "# ::%time", CodeB, "", " " >>

\* prose alone
TextT    == << "Text" >>

PyTexts == { PyA, PyTA, PyOpen, PyMarkLast, PyTitle, PyJinja, PyFront }

HashA  == from_string(<< "code", CodeA >>)
HashB  == from_string(<< "code", CodeB >>)
HashHA == from_string(<< "code", "#::hide", CodeA >>)
HashT  == from_string(<< "text", "Text" >>)

\* the source files the server can be started on: one of the texts, or no file
Sources ==
    { [ exists |-> TRUE, text |-> t ] : t \in { TextA, TextOpen } }
        \cup { [ exists |-> FALSE, text |-> << >> ] }

\* the code-cell tag of a page for cell hashid with these classes
Tag(hashid, classes) ==
    [ hashid |-> hashid, classes |-> classes,
      output |-> << "<div class=output>", "2", "</div>" >> ]

\* pages an earlier run can have left in the output file
Htmls ==
    { [ exists |-> FALSE, cells_tag |-> FALSE, tags |-> << >> ],
      [ exists |-> TRUE, cells_tag |-> FALSE, tags |-> << >> ],
      [ exists |-> TRUE, cells_tag |-> TRUE,  tags |-> << Tag(HashA, { "code-cell", "done" }) >> ],
      [ exists |-> TRUE, cells_tag |-> TRUE,  tags |-> << Tag(HashA, { "code-cell", "hide", "done" }),
                                         Tag(HashB, { "code-cell", "done" }) >> ] }

\* the traceback of a failed cell
Traceback == << "ZeroDivisionError" >>

\* what the kernel publishes on iopub for request msg_id, in order
IopubScript(msg_id, outcome) ==
    IF outcome \in { "bar", "lines", "overprint" }
    THEN << [ type |-> "stream", parent |-> Some(msg_id),
              text |-> CASE outcome = "bar"   -> << "1", "0", "%" >>
                         [] outcome = "lines" -> << "a", "\n" >>
                         [] OTHER             -> << "x", "\n", "a" >> ],
            [ type |-> "stream", parent |-> Some(msg_id), text |-> << "\r", "b" >> ],
            [ type |-> "status", parent |-> Some(msg_id), execution_state |-> "idle" ] >>
    ELSE IF outcome = "printed_error"
    THEN << [ type |-> "stream", parent |-> Some(msg_id), text |-> << "1", "\n" >> ],
            [ type |-> "display_data", parent |-> Some(msg_id),
              data |-> [ m \in { TEXT_HTML } |-> << "<b>plot</b>" >> ] ],
            [ type |-> "error", parent |-> Some(msg_id), traceback |-> Traceback ],
            [ type |-> "status", parent |-> Some(msg_id), execution_state |-> "idle" ] >>
    ELSE IF outcome = "silent"
    THEN << [ type |-> "status", parent |-> Some(msg_id), execution_state |-> "idle" ] >>
    ELSE IF outcome = "quiet"
    THEN << [ type |-> "status", parent |-> Some(msg_id), execution_state |-> "busy" ],
            [ type |-> "execute_input", parent |-> Some(msg_id) ],
            [ type |-> "status", parent |-> Some(msg_id), execution_state |-> "idle" ] >>
    ELSE IF outcome = "ok"
    THEN << [ type |-> "stream", parent |-> Some(msg_id), text |-> << "1", "\n" >> ],
            [ type |-> "execute_result", parent |-> Some(msg_id),
              data |-> [ m \in { TEXT_PLAIN } |-> << "2", "<", "3" >> ] ],
            [ type |-> "status", parent |-> Some(msg_id), execution_state |-> "idle" ] >>
    ELSE << [ type |-> "display_data", parent |-> Some(msg_id),
              data |-> [ m \in { TEXT_HTML } |-> << "<b>plot</b>" >> ] ],
            [ type |-> "error", parent |-> Some(msg_id), traceback |-> Traceback ],
            [ type |-> "status", parent |-> Some(msg_id), execution_state |-> "idle" ] >>

\* what the kernel answers on the shell channel for request msg_id
ShellScript(msg_id, outcome) ==
    IF outcome \in { "ok", "quiet", "silent", "bar", "lines", "overprint" }
    THEN << [ type |-> "execute_reply", parent |-> Some(msg_id), status |-> "ok" ] >>
    ELSE << [ type |-> "execute_reply", parent |-> Some(msg_id), status |-> "error",
              traceback |-> Traceback ] >>

\* code that prints and gives a value, code that raises
Outcomes == { "ok", "error" }

\* code that gives nothing, code that prints and gives a value
QuietOutcomes == { "quiet", "ok" }

\* what the code of a converted source can do: the above, and printing and
\* showing something before it raises
ConvertOutcomes == Outcomes \cup QuietOutcomes \cup { "printed_error" }

\* code that prints and then prints again from a carriage return on: over a
\* line without end, over a line that is ended, over the last of two lines
StreamOutcomes == { "bar", "lines", "overprint" }

\* the msg_id of a request that another client of the kernel sent
ForeignId == MaxReq + 1

\* messages the kernel publishes that answer no request of the server: without
\* a parent, or with the parent of another client
ForeignMessages ==
    { [ type |-> "status", parent |-> None, execution_state |-> "starting" ],
      [ type |-> "stream", parent |-> None, text |-> << "z", "\n" >> ],
      [ type |-> "error", parent |-> Some(ForeignId), traceback |-> Traceback ],
      [ type |-> "status", parent |-> Some(ForeignId), execution_state |-> "idle" ] }

-----------------------------------------------------------------------------
(* kernel.py *)

\* Kernel.execute for the cells hs of the mapping cs, one request each, in
\* order: the correlation map, the requests sent, and the kernel's answers to
\* them put on its two channels (outs gives the outcome of each request)
RECURSIVE execute_all(_, _, _, _)
execute_all(k, cs, hs, outs) ==
    IF hs = << >> THEN k
    ELSE LET msg_id == Len(k.hashids) + 1
         IN  execute_all(
                 [ hashids  |-> Append(k.hashids, Head(hs)),
                   requests |-> Append(k.requests, cs[Head(hs)].code),
                   iopub    |-> k.iopub \o IopubScript(msg_id, Head(outs)),
                   shell    |-> k.shell \o ShellScript(msg_id, Head(outs)) ],
                 cs, Tail(hs), Tail(outs))

\* the kernel adapter's state as one record
TheKernel == [ hashids |-> hashids, requests |-> requests,
               iopub |-> iopub, shell |-> shell ]

\* nobody has answered request msg_id yet
NoneApplied == [ idle |-> FALSE, late |-> FALSE ]

\* Kernel.run has started the kernel and its three tasks, and the kernel was
\* not shut down
KernelUp == pc \in { "running", "converting" }

\* _iopub_receiver that puts the message before those that wait
_iopub_receiver_first ==
    /\ KernelUp
    /\ iopub # << >>
    /\ msg_queue' = << Head(iopub) >> \o msg_queue
    /\ iopub' = Tail(iopub)
    /\ UNCHANGED << pc, cells, order, hashids, requests, shell, watcher,
                    receiver, nchange, last, applied, parsed, _frontmatter >>
    /\ UNCHANGED << pageVars, bcastVars, convVars, run, _file_change >>

\* Kernel._iopub_receiver: one message read from iopub is put on the queue
_iopub_receiver ==
    /\ KernelUp
    /\ iopub # << >>
    /\ msg_queue' = Append(msg_queue, Head(iopub))
    /\ iopub' = Tail(iopub)
    /\ UNCHANGED << pc, cells, order, hashids, requests, shell, watcher,
                    receiver, nchange, last, applied, parsed, _frontmatter >>
    /\ UNCHANGED << pageVars, bcastVars, convVars, run, _file_change >>

\* Kernel._shell_receiver: one message read from shell is put on the queue
_shell_receiver ==
    /\ KernelUp
    /\ shell # << >>
    /\ msg_queue' = Append(msg_queue, Head(shell))
    /\ shell' = Tail(shell)
    /\ UNCHANGED << pc, cells, order, hashids, requests, iopub, watcher,
                    receiver, nchange, last, applied, parsed, _frontmatter >>
    /\ UNCHANGED << pageVars, bcastVars, convVars, run, _file_change >>

-----------------------------------------------------------------------------
(* server.py *)

\* the cells of the mapping cs that hold something a kernel sent or a page
\* seeded: a stream, an output, an error or a completion
WithResults(cs) ==
    { h \in DOMAIN cs :
        /\ cs[h].kind = "code"
        /\ \/ cs[h]._stream # << >>
           \/ cs[h]._output # None
           \/ cs[h]._error # None
           \/ cs[h]._done }

\* what a call did: the operation, the error it raised, its input, the lists
\* update_from_source returned (as hashes), the cells it sent to the kernel,
\* the hashes it kept and dropped, the cells that held results before it, and
\* whether its input was the text of the update before it
Last(op, error, input, new_cells, updated_cells, executed, kept, dropped, had, again) ==
    [ op |-> op, error |-> error, input |-> input, new_cells |-> new_cells,
      updated_cells |-> updated_cells, executed |-> executed,
      kept |-> kept, dropped |-> dropped, had |-> had, again |-> again ]

\* a call of which nothing but the operation and the error is kept
LastOp(op, error) == Last(op, error, << >>, << >>, << >>, << >>, { }, { }, { }, FALSE)

NoLast == LastOp("none", NoError)

\* the code cells among the cells hs of the mapping cs
CodeOnly(cs, hs) == SelectIn(hs, { h \in DOMAIN cs : cs[h].kind = "code" })

\* the loops run over updated_cells in place of new_cells
dispatched_updated(cs, new_cells, updated_cells) == CodeOnly(cs, updated_cells)

\* the loops run over every code cell the document holds
dispatched_stored(cs, new_cells, updated_cells) == CodeOnly(cs, ClassList(DOMAIN cs))

\* KnitjServer._source_handler, its two loops over new_cells: the cells that
\* are marked evaluating and then sent to the kernel
dispatched(cs, new_cells, updated_cells) == CodeOnly(cs, new_cells)

\* KnitjServer.get_index: the html of every cell, joined in the order of the
\* document, as render_index puts it inside the element with id cells
get_index(cs, ord) == [ i \in 1..Len(ord) |-> BaseCell_html(cs[ord[i]]) ]

\* the mapping cs after the html property of its cells hs was read
html_read_all(cs, hs) ==
    [ h \in DOMAIN cs |-> IF h \in hs THEN BaseCell_html_read(cs[h]) ELSE cs[h] ]

\* update_all that hands the message on and leaves the file as it is
update_all_no_write(cs, ord, file) == [ cells |-> cs, output |-> file ]

\* KnitjServer.update_all, after the message was handed to register_message:
\* the page is rendered from the document and written to the output file
update_all(cs, ord, file) ==
    [ cells |-> html_read_all(cs, DOMAIN cs), output |-> Some(get_index(cs, ord)) ]

\* the document message that lists the updated cells alone
DocumentMessage_updated_only(cs, ord, updated_cells) ==
    [ kind |-> "document", hashids |-> updated_cells,
      htmls |-> [ h \in Range(updated_cells) |-> BaseCell_html(cs[h]) ] ]

\* the message {kind: document, hashids, htmls} of _source_handler
DocumentMessage(cs, ord, updated_cells) ==
    [ kind |-> "document", hashids |-> ord,
      htmls |-> [ h \in Range(updated_cells) |-> BaseCell_html(cs[h]) ] ]

\* the message {kind: cell, hashid, html} of _kernel_handler
CellMessage(cs, hashid) ==
    [ kind |-> "cell", hashid |-> hashid, html |-> BaseCell_html(cs[hashid]) ]

\* _kernel_handler that takes a message without a cell for an error unless it
\* is a STATUS
_kernel_handler_parentless_raises(cs, ord, file, msg, hashid) ==
    IF hashid = None
    THEN [ cells |-> cs, output |-> file,
           error |-> IF msg.type = "status" THEN NoError ELSE "ValueError",
           cell |-> None,
           registered |->
               IF msg.type = "status" /\ msg.execution_state = "starting"
               THEN << [ kind |-> "kernel_starting" ] >>
               ELSE << >> ]
    ELSE LET r == process_message(cs, msg, hashid)
         IN  IF r.error # NoError \/ r.cell = None
             THEN [ cells |-> r.cells, output |-> file, error |-> r.error,
                    cell |-> None, registered |-> << >> ]
             ELSE LET u == update_all(html_read_all(r.cells, { r.cell }), ord, file)
                  IN  [ cells |-> u.cells, output |-> u.output, error |-> NoError,
                        cell |-> r.cell,
                        registered |-> << CellMessage(r.cells, r.cell) >> ]

\* KnitjServer._kernel_handler: the mapping and the output file after the
\* call, the messages handed to register_message, the hash of the cell the
\* message was applied to and the error raised
_kernel_handler(cs, ord, file, msg, hashid) ==
    IF hashid = None
    THEN [ cells |-> cs, output |-> file, error |-> NoError, cell |-> None,
           registered |->
               IF msg.type = "status" /\ msg.execution_state = "starting"
               THEN << [ kind |-> "kernel_starting" ] >>
               ELSE << >> ]
    ELSE LET r == process_message(cs, msg, hashid)
         IN  IF r.error # NoError \/ r.cell = None
             THEN [ cells |-> r.cells, output |-> file, error |-> r.error,
                    cell |-> None, registered |-> << >> ]
             ELSE LET u == update_all(html_read_all(r.cells, { r.cell }), ord, file)
                  IN  [ cells |-> u.cells, output |-> u.output, error |-> NoError,
                        cell |-> r.cell,
                        registered |-> << CellMessage(r.cells, r.cell) >> ]

\* KnitjServer.__init__: the document is built from the source file, then
\* seeded from the output file; nothing is returned to a caller and nothing
\* is sent to the kernel
ServerInit(src, html) ==
    /\ pc = "new"
    /\ LET r  == IF ~ src.exists
                 THEN [ error |-> NoError, cells |-> cells, order |-> order,
                        new_cells |-> << >>, updated_cells |-> << >> ]
                 ELSE update_from_source(cells, order, src.text, 0)
       IN  IF r.error # NoError
           THEN /\ pc' = "failed"
                /\ last' = LastOp("init", r.error)
                /\ UNCHANGED << cells, order, parsed, _frontmatter >>
           ELSE /\ pc' = "constructed"
                /\ cells' = IF ~ html.exists THEN r.cells
                            ELSE load_output_from_html(r.cells, html)
                /\ order' = r.order
                /\ parsed' = IF src.exists THEN Some(src.text) ELSE None
                /\ _frontmatter' = IF src.exists
                                   THEN update_frontmatter(_frontmatter, src.text)
                                   ELSE _frontmatter
                /\ last' = Last("init", NoError, src.text, r.new_cells,
                                r.updated_cells, << >>, { }, { }, { }, FALSE)
    /\ registered' = << >>
    /\ UNCHANGED << hashids, requests, iopub, shell, msg_queue, watcher,
                    receiver, nchange, applied >>
    /\ UNCHANGED << _output, introduced, bcastVars, convVars, run, _file_change >>

\* the div of class output of a cell of the page, as str() gives the element
\* that find(class_='output') returns: the element with its own tags
output_element(cell_html) ==
    << "<div class=output>" >> \o cell_html.output \o << "</div>" >>

\* the code-cell tags that BeautifulSoup finds in a page the program wrote:
\* of each div of class code-cell the first class, the classes, and the
\* element of class output
RECURSIVE code_cell_tags(_)
code_cell_tags(page) ==
    IF page = << >> THEN << >>
    ELSE IF Contains(Head(page).classes, "code-cell")
    THEN << [ hashid  |-> Head(page).hashid,
              classes |-> Range(Head(page).classes),
              output  |-> output_element(Head(page)) ] >> \o code_cell_tags(Tail(page))
    ELSE code_cell_tags(Tail(page))

\* the output file the program wrote, read back
read_page(page) == [ exists |-> TRUE, cells_tag |-> TRUE, tags |-> code_cell_tags(page) ]

\* KnitjServer.__init__ once more, after the server was stopped: the document
\* is built from the source file, which holds the text parsed last, and
\* seeded from the output file the stopped server has left; the model does not
\* follow the new server further
ServerInit_on_output ==
    /\ pc = "running"
    /\ watcher = "running"
    /\ parsed # None
    /\ _output # None
    /\ LET r == update_from_source(<< >>, << >>, parsed[1], 0)
       IN  /\ cells' = load_output_from_html(r.cells, read_page(_output[1]))
           /\ order' = r.order
           /\ last' = Last("init", NoError, parsed[1], r.new_cells, r.updated_cells,
                           << >>, { }, { }, WithResults(cells), FALSE)
    /\ pc' = "reconstructed"
    /\ hashids' = << >>
    /\ requests' = << >>
    /\ iopub' = << >>
    /\ shell' = << >>
    /\ msg_queue' = << >>
    /\ applied' = << >>
    /\ watcher' = "idle"
    /\ receiver' = "idle"
    /\ registered' = << >>
    /\ _frontmatter' = update_frontmatter(None, parsed[1])
    /\ UNCHANGED << nchange, parsed, _output, introduced, bcastVars, convVars, run, _file_change >>

\* the cells hs of cs with the runtime flag evaluating added
MarkEvaluating(cs, hs) ==
    [ h \in DOMAIN cs |->
        IF h \in Range(hs) THEN [ cs[h] EXCEPT !._flags = cs[h]._flags \cup { "evaluating" } ]
        ELSE cs[h] ]

\* start that marks every code cell not yet done as evaluating and sends it to
\* the kernel
start_dispatching ==
    /\ pc = "constructed"
    /\ pc' = "running"
    /\ watcher' = "running"
    /\ receiver' = "running"
    /\ last' = LastOp("start", NoError)
    /\ LET code == SelectIn(order, { h \in DOMAIN cells :
                                       cells[h].kind = "code" /\ ~ cells[h]._done })
           cs1  == MarkEvaluating(cells, code)
       IN  /\ Len(code) <= MaxReq
           /\ \E outs \in [ 1..Len(code) -> Outcomes ] :
                LET k == execute_all(TheKernel, cs1, code, outs)
                IN  /\ hashids' = k.hashids
                    /\ requests' = k.requests
                    /\ iopub' = k.iopub
                    /\ shell' = k.shell
           /\ applied' = applied \o [ i \in 1..Len(code) |-> NoneApplied ]
           /\ cells' = cs1
    /\ registered' = << >>
    /\ UNCHANGED << order, msg_queue, nchange, parsed, _frontmatter >>
    /\ UNCHANGED << _output, introduced, bcastVars, convVars, run, _file_change >>

\* KnitjServer.start: the kernel, the web server, the broadcaster and the
\* watcher are started
start ==
    /\ pc = "constructed"
    /\ pc' = "running"
    /\ watcher' = "running"
    /\ receiver' = "running"
    /\ last' = LastOp("start", NoError)
    /\ registered' = << >>
    /\ UNCHANGED << cells, order, hashids, requests, iopub, shell, msg_queue,
                    nchange, applied, parsed, _frontmatter >>
    /\ UNCHANGED << _output, introduced, bcastVars, convVars, run, _file_change >>

\* KnitjServer._source_handler(src), which SourceWatcher.run calls for a
\* change of the file that now reads src. An error it raises ends the watcher
\* task. The kernel answers each request with one of outcomes
_source_handler(src, outcomes) ==
    /\ pc = "running"
    /\ watcher = "running"
    /\ nchange < MaxChanges
    /\ nchange' = nchange + 1
    /\ _frontmatter' = update_frontmatter(_frontmatter, src)
    /\ LET r == update_from_source(cells, order, src, nchange + 1)
       IN  IF r.error # NoError
           THEN /\ watcher' = "dead"
                /\ last' = Last("source", r.error, src, << >>, << >>, << >>, { }, { },
                                { }, FALSE)
                /\ registered' = << >>
                /\ cells' = r.cells
                /\ order' = r.order
                /\ UNCHANGED << hashids, requests, iopub, shell, applied, parsed,
                                _output, introduced >>
           ELSE
           LET code == dispatched(r.cells, r.new_cells, r.updated_cells)
               cs1  == MarkEvaluating(r.cells, code)
               msg  == DocumentMessage(cs1, r.order, r.updated_cells)
               u    == update_all(html_read_all(cs1, Range(r.updated_cells)),
                                  r.order, _output)
           IN  /\ Len(hashids) + Len(code) <= MaxReq
               /\ registered' = << msg >>
               /\ _output' = u.output
               /\ introduced' = introduced \cup Range(msg.hashids)
               /\ \E outs \in [ 1..Len(code) -> outcomes ] :
                    LET k == execute_all(TheKernel, cs1, code, outs)
                    IN  /\ hashids' = k.hashids
                        /\ requests' = k.requests
                        /\ iopub' = k.iopub
                        /\ shell' = k.shell
               /\ applied' = applied \o [ i \in 1..Len(code) |-> NoneApplied ]
               /\ cells' = u.cells
               /\ order' = r.order
               /\ watcher' = watcher
               /\ parsed' = Some(src)
               /\ last' = Last("source", NoError, src, r.new_cells, r.updated_cells,
                               code, DOMAIN cells \cap DOMAIN r.cells,
                               DOMAIN cells \ DOMAIN r.cells, WithResults(cells),
                               parsed = Some(src))
    /\ UNCHANGED << pc, msg_queue, receiver, bcastVars, convVars, run >>

\* SourceWatcher.run, one pass of its loop for an event of the watched file
\* when the text read is src; the queue of events is left out of account
SourceWatcher_run_on(src, outcomes) ==
    /\ _source_handler(src, outcomes)
    /\ UNCHANGED _file_change

\* the watched file and another file of its directory
TargetPath == "doc.md"
OtherPath  == "notes.md"

\* the events that can wait in the queue of the watcher
MaxEvents == 2

\* FileChangedHandler._queue_modified, called by on_modified and on_created in
\* the thread of the observer: the path of the event is handed to the loop,
\* which puts it on the queue
_queue_modified(path) ==
    /\ pc = "running"
    /\ Len(_file_change) < MaxEvents
    /\ _file_change' = Append(_file_change, path)
    /\ UNCHANGED << pc, cells, order, hashids, requests, iopub, shell, msg_queue,
                    watcher, receiver, nchange, last, applied, parsed,
                    _frontmatter >>
    /\ UNCHANGED << pageVars, bcastVars, convVars, run >>

\* the handler called for an event without the queue
SourceWatcher_run_unqueued(texts, outcomes) ==
    /\ \E src \in texts : _source_handler(src, outcomes)
    /\ UNCHANGED _file_change

\* the watcher calling the handler for the event of any file of the directory
SourceWatcher_run_any_path(texts, outcomes) ==
    /\ pc = "running"
    /\ watcher = "running"
    /\ _file_change # << >>
    /\ _file_change' = Tail(_file_change)
    /\ \E src \in texts : _source_handler(src, outcomes)

\* SourceWatcher.run, one pass of its loop: a path is taken from the queue,
\* and for the watched file the handler is called with the text read, one of
\* texts
SourceWatcher_run(texts, outcomes) ==
    /\ pc = "running"
    /\ watcher = "running"
    /\ _file_change # << >>
    /\ _file_change' = Tail(_file_change)
    /\ IF Head(_file_change) = TargetPath
       THEN \E src \in texts : _source_handler(src, outcomes)
       ELSE /\ UNCHANGED << pc, cells, order, hashids, requests, iopub, shell,
                            msg_queue, watcher, receiver, nchange, last, applied,
                            parsed, _frontmatter >>
            /\ UNCHANGED << pageVars, bcastVars, convVars, run >>

\* KnitjServer._ws_msg_handler, the loop of a reevaluate request over hs: the
\* mapping, the kernel adapter, the cells sent and the error that ended it
RECURSIVE reevaluate(_, _, _, _, _)
reevaluate(cs, k, hs, outs, sent) ==
    IF hs = << >> THEN [ cells |-> cs, kernel |-> k, executed |-> sent, error |-> NoError ]
    ELSE IF Head(hs) \notin DOMAIN cs
    THEN [ cells |-> cs, kernel |-> k, executed |-> sent, error |-> "KeyError" ]
    ELSE IF cs[Head(hs)].kind # "code"
    THEN [ cells |-> cs, kernel |-> k, executed |-> sent, error |-> "AssertionError" ]
    ELSE LET cs1 == [ cs EXCEPT ![Head(hs)] = reset(cs[Head(hs)]) ]
         IN  reevaluate(cs1, execute_all(k, cs1, << Head(hs) >>, << Head(outs) >>),
                        Tail(hs), Tail(outs), Append(sent, Head(hs)))

\* the hash lists a browser sends with a reevaluate request
ReevaluateRequests ==
    { << HashA >>, << HashB >>, << HashHA >>, << HashT >>, << HashA, HashB >> }

\* _ws_msg_handler that calls update_all with a cell message for every cell it
\* has reset
_ws_msg_handler_update_all(hs, outcomes) ==
    /\ pc = "running"
    /\ Len(hashids) + Len(hs) <= MaxReq
    /\ \E outs \in [ 1..Len(hs) -> outcomes ] :
         LET r == reevaluate(cells, TheKernel, hs, outs, << >>)
             u == update_all(r.cells, order, _output)
         IN  /\ cells' = IF r.executed = << >> THEN r.cells ELSE u.cells
             /\ hashids' = r.kernel.hashids
             /\ requests' = r.kernel.requests
             /\ iopub' = r.kernel.iopub
             /\ shell' = r.kernel.shell
             /\ applied' = applied \o [ i \in 1..Len(r.executed) |-> NoneApplied ]
             /\ last' = Last("reevaluate", r.error, hs, << >>, << >>, r.executed,
                             { }, { }, WithResults(cells), FALSE)
             /\ registered' = [ i \in 1..Len(r.executed) |->
                                  CellMessage(r.cells, r.executed[i]) ]
             /\ _output' = IF r.executed = << >> THEN _output ELSE u.output
    /\ UNCHANGED << pc, order, msg_queue, watcher, receiver, nchange, parsed, _frontmatter >>
    /\ UNCHANGED << introduced, bcastVars, convVars, run, _file_change >>

\* KnitjServer._ws_msg_handler for {kind: reevaluate, hashids: hs}; the kernel
\* answers each request with one of outcomes
_ws_msg_handler(hs, outcomes) ==
    /\ pc = "running"
    /\ Len(hashids) + Len(hs) <= MaxReq
    /\ \E outs \in [ 1..Len(hs) -> outcomes ] :
         LET r == reevaluate(cells, TheKernel, hs, outs, << >>)
         IN  /\ cells' = r.cells
             /\ hashids' = r.kernel.hashids
             /\ requests' = r.kernel.requests
             /\ iopub' = r.kernel.iopub
             /\ shell' = r.kernel.shell
             /\ applied' = applied \o [ i \in 1..Len(r.executed) |-> NoneApplied ]
             /\ last' = Last("reevaluate", r.error, hs, << >>, << >>, r.executed,
                             { }, { }, WithResults(cells), FALSE)
    /\ registered' = << >>
    /\ UNCHANGED << pc, order, msg_queue, watcher, receiver, nchange, parsed, _frontmatter >>
    /\ UNCHANGED << _output, introduced, bcastVars, convVars, run, _file_change >>

\* the STATUS a kernel publishes when it comes up
Starting == [ type |-> "status", parent |-> None, execution_state |-> "starting" ]

\* restart that starts the adapter afresh, with an empty correlation map
Kernel_restart_forgets ==
    /\ pc = "running"
    /\ \A x \in Range(iopub) \cup Range(msg_queue) : x # Starting
    /\ \E i \in 0..Len(iopub), j \in 0..Len(shell) :
         /\ iopub' = Append(Slice(iopub, 1, i), Starting)
         /\ shell' = Slice(shell, 1, j)
    /\ hashids' = << >>
    /\ applied' = << >>
    /\ last' = LastOp("restart", NoError)
    /\ registered' = << >>
    /\ UNCHANGED << pc, cells, order, requests, msg_queue, watcher, receiver,
                    nchange, parsed, _frontmatter >>
    /\ UNCHANGED << _output, introduced, bcastVars, convVars, run, _file_change >>

\* KnitjServer._ws_msg_handler for {kind: restart_kernel}: Kernel.restart. The
\* kernel process is replaced: what it had published still arrives, the rest
\* of its answers is lost, and the new kernel publishes STATUS starting
Kernel_restart ==
    /\ pc = "running"
    /\ \A x \in Range(iopub) \cup Range(msg_queue) : x # Starting
    /\ \E i \in 0..Len(iopub), j \in 0..Len(shell) :
         /\ iopub' = Append(Slice(iopub, 1, i), Starting)
         /\ shell' = Slice(shell, 1, j)
    /\ last' = LastOp("restart", NoError)
    /\ registered' = << >>
    /\ UNCHANGED << pc, cells, order, hashids, requests, msg_queue, watcher,
                    receiver, nchange, applied, parsed, _frontmatter >>
    /\ UNCHANGED << _output, introduced, bcastVars, convVars, run, _file_change >>

\* the answers of the kernel to request msg_id when the request is interrupted
Interrupted(msg_id) == << "KeyboardInterrupt" >>

\* KnitjServer._ws_msg_handler for {kind: interrupt_kernel}: Kernel.interrupt.
\* A kernel that runs nothing takes no notice; otherwise the request it runs,
\* which has something to publish yet, ends with an error in place of that
Kernel_interrupt ==
    /\ pc = "running"
    /\ \/ UNCHANGED << iopub, shell >>
       \/ /\ iopub # << >>
          /\ Head(iopub).parent # None
          /\ Head(iopub).type \notin { "error", "status" }
          /\ LET p == Head(iopub).parent
             IN  /\ iopub' =
                      << [ type |-> "error", parent |-> p,
                           traceback |-> Interrupted(p[1]) ],
                         [ type |-> "status", parent |-> p,
                           execution_state |-> "idle" ] >>
                        \o SelectSeq(iopub, LAMBDA m : m.parent # p)
                /\ shell' =
                      [ i \in DOMAIN shell |->
                          IF shell[i].parent = p
                          THEN [ type |-> "execute_reply", parent |-> p,
                                 status |-> "error",
                                 traceback |-> Interrupted(p[1]) ]
                          ELSE shell[i] ]
    /\ last' = LastOp("interrupt", NoError)
    /\ registered' = << >>
    /\ UNCHANGED << pc, cells, order, hashids, requests, msg_queue, watcher,
                    receiver, nchange, applied, parsed, _frontmatter >>
    /\ UNCHANGED << _output, introduced, bcastVars, convVars, run, _file_change >>

\* the kernel publishes on iopub a message that answers no request of the
\* server, one at a time
kernel_publishes(m) ==
    /\ pc = "running"
    /\ \A x \in Range(iopub) \cup Range(msg_queue) : x \notin ForeignMessages
    /\ iopub' = Append(iopub, m)
    /\ UNCHANGED << pc, cells, order, hashids, requests, shell, msg_queue, watcher,
                    receiver, nchange, last, applied, parsed, _frontmatter >>
    /\ UNCHANGED << pageVars, bcastVars, convVars, run, _file_change >>

\* the messages a kernel can publish for request msg_id, one of each kind and
\* two of those that print and of those that fail
TraceMessages(msg_id) ==
    { [ type |-> "stream", parent |-> Some(msg_id), text |-> << "a" >> ],
      [ type |-> "stream", parent |-> Some(msg_id), text |-> << "\r", "b" >> ],
      [ type |-> "execute_result", parent |-> Some(msg_id),
        data |-> [ m \in { TEXT_PLAIN } |-> << "2" >> ] ],
      [ type |-> "display_data", parent |-> Some(msg_id),
        data |-> [ m \in { TEXT_HTML } |-> << "<b>plot</b>" >> ] ],
      [ type |-> "error", parent |-> Some(msg_id), traceback |-> Traceback ],
      [ type |-> "execute_reply", parent |-> Some(msg_id), status |-> "error",
        traceback |-> Interrupted(msg_id) ],
      [ type |-> "status", parent |-> Some(msg_id), execution_state |-> "idle" ] }

\* messages of types process_message has no branch for, and two it has
UnknownMessages(msg_id) ==
    { [ type |-> "shutdown_reply", parent |-> Some(msg_id) ],
      [ type |-> "execute_request", parent |-> Some(msg_id) ],
      [ type |-> "stream", parent |-> Some(msg_id), text |-> << "a" >> ],
      [ type |-> "status", parent |-> Some(msg_id), execution_state |-> "idle" ] }

\* the messages of one trace
MaxTrace == 3

\* the kernel answers the first request, of which nothing was read yet, with
\* the trace tr
kernel_answers(tr) ==
    /\ pc = "running"
    /\ Len(hashids) = 1
    /\ iopub = IopubScript(1, "ok")
    /\ shell = ShellScript(1, "ok")
    /\ iopub' = tr
    /\ shell' = << >>
    /\ UNCHANGED << pc, cells, order, hashids, requests, msg_queue, watcher,
                    receiver, nchange, last, applied, parsed, _frontmatter >>
    /\ UNCHANGED << pageVars, bcastVars, convVars, run, _file_change >>

\* Kernel._receiver taking one message from the queue and calling the handler
\* the kernel adapter was made with, KnitjServer._kernel_handler in the server
\* and Document.process_message in convert; an error the handler raises ends
\* the task
_receiver ==
    /\ KernelUp
    /\ receiver = "running"
    /\ msg_queue # << >>
    /\ msg_queue' = Tail(msg_queue)
    /\ LET msg    == Head(msg_queue)
           hashid == IF msg.parent # None /\ msg.parent[1] \in DOMAIN hashids
                     THEN hashids[msg.parent[1]] ELSE None
           r      == IF pc = "converting"
                     THEN LET d == process_message(cells, msg, hashid)
                          IN  [ cells |-> d.cells, output |-> _output,
                                error |-> d.error, cell |-> d.cell,
                                registered |-> << >> ]
                     ELSE _kernel_handler(cells, order, _output, msg, hashid)
           isidle == msg.type = "status" /\ msg.execution_state = "idle"
       IN  /\ cells' = r.cells
           /\ receiver' = IF r.error # NoError THEN "dead" ELSE receiver
           /\ applied' =
                IF r.cell = None THEN applied
                ELSE [ applied EXCEPT ![msg.parent[1]] =
                         [ idle  |-> @.idle \/ isidle,
                           late  |-> @.late \/ (@.idle /\ ~ isidle) ] ]
           /\ last' = LastOp("kernel", r.error)
           /\ registered' = r.registered
           /\ _output' = r.output
    /\ UNCHANGED << pc, order, hashids, requests, iopub, shell, watcher, nchange,
                    parsed, _frontmatter, introduced, bcastVars, convVars, run, _file_change >>

\* Kernel.run before its task has run: at is the place of the task ("new",
\* "gather" while it awaits its workers, "raised" or "cancelled" once it has
\* ended), kernel the process of the KernelManager ("none", "started",
\* "shutdown"), iopub and shell the tasks of the two readers
RunNew == [ at |-> "new", kernel |-> "none", iopub |-> "idle", shell |-> "idle" ]

\* a run that ends without its finally clause
exit_without_shutdown(r, how) == [ r EXCEPT !.at = how ]

\* Kernel.run, the finally clause and the end of the task: Kernel.shutdown is
\* called and the error goes on to the caller
finally_shutdown(r, how) == [ r EXCEPT !.at = how, !.kernel = "shutdown" ]

\* Kernel.run from its call to await asyncio.gather: start_kernel either
\* starts the kernel process or raises, before the try statement is entered
Kernel_run ==
    /\ pc = "running"
    /\ run.at = "new"
    /\ \E started \in BOOLEAN :
         IF started
         THEN /\ run' = [ at |-> "gather", kernel |-> "started",
                          iopub |-> "running", shell |-> "running" ]
              /\ receiver' = "running"
         ELSE /\ run' = [ RunNew EXCEPT !.at = "raised" ]
              /\ receiver' = "idle"
    /\ UNCHANGED << pc, cells, order, hashids, requests, iopub, shell, msg_queue,
                    watcher, nchange, last, applied, parsed, _frontmatter >>
    /\ UNCHANGED << pageVars, bcastVars, convVars, _file_change >>

\* Kernel._iopub_receiver or Kernel._shell_receiver ended by an error of the
\* client's get_iopub_msg or get_shell_msg
reader_raises(channel) ==
    /\ run.at = "gather"
    /\ run[channel] = "running"
    /\ run' = [ run EXCEPT ![channel] = "dead" ]
    /\ UNCHANGED << pc, cells, order, hashids, requests, iopub, shell, msg_queue,
                    watcher, receiver, nchange, last, applied, parsed,
                    _frontmatter >>
    /\ UNCHANGED << pageVars, bcastVars, convVars, _file_change >>

\* Kernel.run resumed at await asyncio.gather by the error of one of its
\* three workers: the other two are left running
Kernel_run_raised ==
    /\ run.at = "gather"
    /\ receiver = "dead" \/ run.iopub = "dead" \/ run.shell = "dead"
    /\ run' = finally_shutdown(run, "raised")
    /\ UNCHANGED << pc, cells, order, hashids, requests, iopub, shell, msg_queue,
                    watcher, receiver, nchange, last, applied, parsed,
                    _frontmatter >>
    /\ UNCHANGED << pageVars, bcastVars, convVars, _file_change >>

\* the task of Kernel.run cancelled: before it has run nothing is started and
\* nothing is shut down; at await asyncio.gather the workers that still run
\* are cancelled and CancelledError is raised in run
Kernel_run_cancelled ==
    /\ pc = "running"
    /\ run.at \in { "new", "gather" }
    /\ LET stop(w) == IF w = "running" THEN "cancelled" ELSE w
       IN  IF run.at = "new"
           THEN /\ run' = [ run EXCEPT !.at = "cancelled" ]
                /\ receiver' = "idle"
           ELSE /\ run' = finally_shutdown([ run EXCEPT !.iopub = stop(@),
                                                         !.shell = stop(@) ],
                                           "cancelled")
                /\ receiver' = IF receiver = "running" THEN "stopped" ELSE receiver
    /\ UNCHANGED << pc, cells, order, hashids, requests, iopub, shell, msg_queue,
                    watcher, nchange, last, applied, parsed, _frontmatter >>
    /\ UNCHANGED << pageVars, bcastVars, convVars, _file_change >>

-----------------------------------------------------------------------------
(* server.py: Broadcaster; webserver.py: handler *)

\* the websockets of the browsers that connect, each once
Peers == { "ws1", "ws2" }

\* the messages handed to the broadcaster are numbered from 1 to MaxMsg
MaxMsg == 3

\* a browser that has not connected: its connection, the handler call that
\* serves it, and the data it has received
NoPeer == [ transport |-> "none", handler |-> "none", received |-> << >> ]

\* Broadcaster.run waiting at self._queue.get(): at is the place in the loop,
\* msg the message being sent, todo what is left of list(self._wss), raised
\* the error of the last send
BroadcasterIdle == [ at |-> "get", msg |-> 0, todo |-> { }, raised |-> "none" ]

\* the state of the coordinator, the document and the kernel adapter
serverVars ==
    << pc, cells, order, hashids, requests, iopub, shell, msg_queue, watcher,
       receiver, nchange, last, applied, parsed, _frontmatter >>

\* Broadcaster.register_message: the next message is put on the queue
register_message ==
    /\ pc = "running"
    /\ nreg < MaxMsg
    /\ nreg' = nreg + 1
    /\ _queue' = Append(_queue, nreg + 1)
    /\ UNCHANGED << _wss, bcast, peers, serverVars, pageVars, convVars, run, _file_change >>

\* webserver.handler for /ws up to the loop over the messages: the websocket
\* is prepared and added to the set
handler_connect(ws) ==
    /\ pc = "running"
    /\ peers[ws].transport = "none"
    /\ peers' = [ peers EXCEPT ![ws].transport = "open", ![ws].handler = "reading" ]
    /\ _wss' = _wss \cup { ws }
    /\ UNCHANGED << _queue, bcast, nreg, serverVars, pageVars, convVars, run, _file_change >>

\* the browser goes away or the connection breaks
connection_lost(ws) ==
    /\ peers[ws].transport = "open"
    /\ peers' = [ peers EXCEPT ![ws].transport = "closed" ]
    /\ UNCHANGED << _queue, _wss, bcast, nreg, serverVars, pageVars, convVars, run, _file_change >>

\* webserver.handler after the loop over the messages has ended: the
\* websocket is removed from the set, which raises KeyError when it is not in
\* the set
handler_disconnect(ws) ==
    /\ peers[ws].handler = "reading"
    /\ peers[ws].transport = "closed"
    /\ IF ws \in _wss
       THEN /\ _wss' = _wss \ { ws }
            /\ peers' = [ peers EXCEPT ![ws].handler = "returned" ]
       ELSE /\ _wss' = _wss
            /\ peers' = [ peers EXCEPT ![ws].handler = "KeyError" ]
    /\ UNCHANGED << _queue, bcast, nreg, serverVars, pageVars, convVars, run, _file_change >>

\* Broadcaster.run that leaves the message it sends on the queue
Broadcaster_get_no_pop ==
    /\ pc = "running"
    /\ bcast.at = "get"
    /\ _queue # << >>
    /\ _queue' = _queue
    /\ bcast' = [ at |-> IF _wss = { } THEN "get" ELSE "send", msg |-> Head(_queue),
                  todo |-> _wss, raised |-> "none" ]
    /\ UNCHANGED << _wss, peers, nreg, serverVars, pageVars, convVars, run, _file_change >>

\* Broadcaster.run: a message is taken from the queue and list(self._wss) is
\* made for the loop
Broadcaster_get ==
    /\ pc = "running"
    /\ bcast.at = "get"
    /\ _queue # << >>
    /\ _queue' = Tail(_queue)
    /\ bcast' = [ at |-> IF _wss = { } THEN "get" ELSE "send", msg |-> Head(_queue),
                  todo |-> _wss, raised |-> "none" ]
    /\ UNCHANGED << _wss, peers, nreg, serverVars, pageVars, convVars, run, _file_change >>

\* the place in Broadcaster.run after ws was taken from the list
after_send(ws) == IF bcast.todo = { ws } THEN "get" ELSE "send"

\* Broadcaster.run, the except clause: self._wss.remove(ws), which raises
\* KeyError when ws is not in the set; the error ends the task
except_remove(ws) ==
    IF ws \in _wss
    THEN /\ _wss' = _wss \ { ws }
         /\ bcast' = [ bcast EXCEPT !.at = after_send(ws), !.todo = @ \ { ws },
                                    !.raised = "ConnectionResetError" ]
    ELSE /\ _wss' = _wss
         /\ bcast' = [ bcast EXCEPT !.at = "dead", !.raised = "KeyError" ]

\* Broadcaster.run, one pass of the loop over list(self._wss), in whatever
\* order the set gives: the data is sent to ws; a send to a connection that
\* is gone raises ConnectionResetError or, while the transport still takes
\* data, goes nowhere
Broadcaster_send(ws) ==
    /\ bcast.at = "send"
    /\ ws \in bcast.todo
    /\ \/ /\ peers[ws].transport = "open"
          /\ peers' = [ peers EXCEPT ![ws].received = Append(@, bcast.msg) ]
          /\ bcast' = [ bcast EXCEPT !.at = after_send(ws), !.todo = @ \ { ws },
                                     !.raised = "none" ]
          /\ _wss' = _wss
       \/ /\ peers[ws].transport = "closed"
          /\ peers' = peers
          /\ bcast' = [ bcast EXCEPT !.at = after_send(ws), !.todo = @ \ { ws },
                                     !.raised = "none" ]
          /\ _wss' = _wss
       \/ /\ peers[ws].transport = "closed"
          /\ peers' = peers
          /\ except_remove(ws)
    /\ UNCHANGED << _queue, nreg, serverVars, pageVars, convVars, run, _file_change >>

-----------------------------------------------------------------------------
(* convert.py *)

\* render_index('', '__CELLS__', client=False) split at __CELLS__: what the
\* page has before the cells and after them
front == [ part |-> "front" ]
back  == [ part |-> "back" ]

\* the html of a cell as a part of the output
cell_part(cell) == [ part |-> "cell", html |-> BaseCell_html(cell) ]

\* a dispatch loop that sends the first code cell alone
convert_dispatched_first(cs, ord) ==
    IF CodeOnly(cs, ord) = << >> THEN << >> ELSE << Head(CodeOnly(cs, ord)) >>

\* convert, the first loop over document.items(): the code cells sent to the
\* kernel, in the order of the document
convert_dispatched(cs, ord) == CodeOnly(cs, ord)

\* a second loop that writes every cell without awaiting any
RECURSIVE write_all(_, _, _, _)
write_all(cs, ord, pos, w) ==
    IF pos > Len(ord) THEN [ cells |-> cs, written |-> w, cpos |-> pos ]
    ELSE write_all([ cs EXCEPT ![ord[pos]] = BaseCell_html_read(@) ], ord, pos + 1,
                   Append(w, cell_part(cs[ord[pos]])))

\* convert, the second loop over document.items() from place pos on, as far as
\* it gets without being suspended: a text cell is written, a code cell is
\* written when its completion has fired, and the loop is suspended at a code
\* cell whose completion has not
RECURSIVE write_until_await(_, _, _, _)
write_until_await(cs, ord, pos, w) ==
    IF pos > Len(ord) THEN [ cells |-> cs, written |-> w, cpos |-> pos ]
    ELSE IF cs[ord[pos]].kind = "code" /\ ~ cs[ord[pos]]._done
    THEN [ cells |-> cs, written |-> w, cpos |-> pos ]
    ELSE write_until_await([ cs EXCEPT ![ord[pos]] = BaseCell_html_read(@) ], ord,
                           pos + 1, Append(w, cell_part(cs[ord[pos]])))

\* convert after the second loop was left, the document in order ord: when
\* every cell is written, the rest of the page is written and the kernel is
\* shut down
convert_rest(r, ord) ==
    /\ cells' = r.cells
    /\ cpos' = r.cpos
    /\ IF r.cpos > Len(ord)
       THEN /\ written' = Append(r.written, back)
            /\ pc' = "converted"
       ELSE /\ written' = r.written
            /\ pc' = "converting"

\* convert from its call to its first suspension, with the source read and
\* parsed into u and the frontmatter fm: the kernel is started, the head of
\* the page is written, every code
\* cell is sent to the kernel, and the second loop is entered
convert_parsed(u, fm, src, outcomes) ==
    /\ pc = "new"
    /\     IF u.error # NoError
           THEN /\ pc' = "failed"
                /\ last' = Last("convert", u.error, src, << >>, << >>, << >>, { },
                                { }, { }, FALSE)
                /\ UNCHANGED << cells, order, hashids, requests, iopub, shell,
                                applied, receiver, parsed, _frontmatter, convVars,
                                _file_change >>
           ELSE LET code == convert_dispatched(u.cells, u.order)
                IN  /\ Len(code) <= MaxReq
                    /\ order' = u.order
                    /\ parsed' = Some(src)
                    /\ _frontmatter' = fm
                    /\ receiver' = "running"
                    /\ last' = Last("convert", NoError, src, u.new_cells,
                                    u.updated_cells, code, { }, { }, { }, FALSE)
                    /\ \E outs \in [ 1..Len(code) -> outcomes ] :
                         LET k == execute_all(TheKernel, u.cells, code, outs)
                         IN  /\ hashids' = k.hashids
                             /\ requests' = k.requests
                             /\ iopub' = k.iopub
                             /\ shell' = k.shell
                             /\ applied' = [ i \in 1..Len(code) |-> NoneApplied ]
                    /\ convert_rest(write_until_await(u.cells, u.order, 1, << front >>), u.order)
    /\ UNCHANGED << msg_queue, watcher, nchange, pageVars, bcastVars,
                    _file_change, run >>

\* convert with fmt markdown
convert_start(src, outcomes) ==
    convert_parsed(update_from_source(cells, order, src, 0),
                   update_frontmatter(_frontmatter, src), src, outcomes)

\* convert with fmt python
convert_python(src, outcomes) ==
    convert_parsed(update_from_python_source(cells, order, src, 0),
                   update_python_frontmatter(_frontmatter, src), src, outcomes)

\* convert resumed at await cell.wait_for() by the completion of the cell
convert_resume ==
    /\ pc = "converting"
    /\ cpos <= Len(order)
    /\ cells[order[cpos]]._done
    /\ convert_rest(write_until_await(cells, order, cpos, written), order)
    /\ last' = LastOp("convert", NoError)
    /\ UNCHANGED << order, hashids, requests, iopub, shell, msg_queue, watcher,
                    receiver, nchange, applied, parsed, _frontmatter, pageVars,
                    bcastVars, _file_change, run >>

-----------------------------------------------------------------------------
(* The specification *)

Init ==
    /\ pc = "new"
    /\ cells = << >>
    /\ order = << >>
    /\ hashids = << >>
    /\ requests = << >>
    /\ iopub = << >>
    /\ shell = << >>
    /\ msg_queue = << >>
    /\ watcher = "idle"
    /\ receiver = "idle"
    /\ nchange = 0
    /\ last = NoLast
    /\ applied = << >>
    /\ parsed = None
    /\ _frontmatter = None
    /\ registered = << >>
    /\ _output = None
    /\ introduced = { }
    /\ _queue = << >>
    /\ _wss = { }
    /\ bcast = BroadcasterIdle
    /\ peers = [ p \in Peers |-> NoPeer ]
    /\ nreg = 0
    /\ written = << >>
    /\ cpos = 0
    /\ _file_change = << >>
    /\ run = RunNew

\* no source file and no page
NoFile == [ exists |-> FALSE, text |-> << >> ]
NoPage == [ exists |-> FALSE, cells_tag |-> FALSE, tags |-> << >> ]

\* the server with the kernel and a browser: some of the texts; the cells a
\* file change sends get every kernel answer, the reevaluated ones the answer
\* of code that runs
Next ==
    \/ \E src \in Sources, html \in Htmls : ServerInit(src, html)
    \/ start
    \/ \E src \in { TextAT, TextB, TextOpen } : SourceWatcher_run_on(src, Outcomes)
    \/ \E hs \in ReevaluateRequests : _ws_msg_handler(hs, { "ok" })
    \/ _iopub_receiver
    \/ _shell_receiver
    \/ _receiver

Spec == Init /\ [][Next]_vars

\* the server under file changes alone: every text, every kernel answer
NextSource ==
    \/ \E src \in Sources, html \in Htmls : ServerInit(src, html)
    \/ start
    \/ \E src \in Texts : SourceWatcher_run_on(src, Outcomes)
    \/ _iopub_receiver
    \/ _shell_receiver
    \/ _receiver

SpecSource == Init /\ [][NextSource]_vars

\* the server under file changes whose text may have a frontmatter and may
\* fail to parse
NextParse ==
    \/ \E src \in Sources \cup { [ exists |-> TRUE, text |-> TextFA ] },
          html \in Htmls : ServerInit(src, html)
    \/ start
    \/ \E src \in ParseTexts : SourceWatcher_run_on(src, { "ok", "error" })
    \/ _iopub_receiver
    \/ _shell_receiver
    \/ _receiver

SpecParse == Init /\ [][NextParse]_vars

\* the server with a kernel that also publishes messages which answer no
\* request of the server
NextForeign ==
    \/ \E src \in Sources, html \in Htmls : ServerInit(src, html)
    \/ start
    \/ \E src \in { TextA, TextB } : SourceWatcher_run_on(src, { "ok" })
    \/ \E m \in ForeignMessages : kernel_publishes(m)
    \/ _iopub_receiver
    \/ _shell_receiver
    \/ _receiver

SpecForeign == Init /\ [][NextForeign]_vars

\* the server with a browser that also asks for a restart or an interrupt of
\* the kernel
NextControl ==
    \/ ServerInit(NoFile, NoPage)
    \/ start
    \/ \E src \in { TextA, TextB } : SourceWatcher_run_on(src, { "ok" })
    \/ Kernel_restart
    \/ Kernel_interrupt
    \/ _iopub_receiver
    \/ _shell_receiver
    \/ _receiver

SpecControl == Init /\ [][NextControl]_vars

\* the server with the thread of the file observer and the queue it feeds
NextThreads ==
    \/ ServerInit(NoFile, NoPage)
    \/ start
    \/ \E path \in { TargetPath, OtherPath } : _queue_modified(path)
    \/ SourceWatcher_run({ TextA, TextATB, TextOpen }, { "ok" })
    \/ _iopub_receiver
    \/ _shell_receiver
    \/ _receiver

SpecThreads == Init /\ [][NextThreads]_vars

\* the same with a watcher task that the loop runs whenever it can take an
\* event
SpecThreadsFair ==
    SpecThreads /\ WF_vars(SourceWatcher_run({ TextA, TextATB, TextOpen }, { "ok" }))

\* the server with every operation that changes what a cell shows: a page to
\* seed from, a modeline that comes and goes, kernel answers, reevaluation
NextMemo ==
    \/ \E src \in Sources, html \in Htmls : ServerInit(src, html)
    \/ start
    \/ \E src \in { TextA, TextHA } : SourceWatcher_run_on(src, Outcomes)
    \/ _ws_msg_handler(<< HashA >>, { "ok" })
    \/ _iopub_receiver
    \/ _shell_receiver
    \/ _receiver

SpecMemo == Init /\ [][NextMemo]_vars

\* the server with a cell that is asked for again while its request is
\* answered: by a reevaluate request, and by a source that drops the cell and
\* one that brings it back
NextRound ==
    \/ \E src \in Sources : ServerInit(src, NoPage)
    \/ start
    \/ \E src \in { TextA, TextT } : SourceWatcher_run_on(src, Outcomes)
    \/ _ws_msg_handler(<< HashA >>, { "ok" })
    \/ _iopub_receiver
    \/ _shell_receiver
    \/ _receiver

SpecRound == Init /\ [][NextRound]_vars

\* the server with one cell whose request the kernel answers with any trace
\* of messages
NextTrace ==
    \/ ServerInit(NoFile, NoPage)
    \/ start
    \/ SourceWatcher_run_on(TextA, { "ok" })
    \/ \E tr \in [ 1..MaxTrace -> TraceMessages(1) ] : kernel_answers(tr)
    \/ _iopub_receiver
    \/ _receiver

SpecTrace == Init /\ [][NextTrace]_vars

\* the server with one cell whose request is answered with messages of types
\* the document does not handle
NextUnknown ==
    \/ ServerInit(NoFile, NoPage)
    \/ start
    \/ SourceWatcher_run_on(TextA, { "ok" })
    \/ \E tr \in [ 1..MaxTrace -> UnknownMessages(1) ] : kernel_answers(tr)
    \/ _iopub_receiver
    \/ _receiver

SpecUnknown == Init /\ [][NextUnknown]_vars

\* the task of Kernel.run in a server with one cell: the kernel process may
\* fail to start, each of the three workers may end with an error, and the
\* task may be cancelled at any time
NextRun ==
    \/ ServerInit(NoFile, NoPage)
    \/ start
    \/ Kernel_run
    \/ (run.at = "gather" /\ SourceWatcher_run_on(TextA, { "ok" }))
    \/ \E tr \in [ 1..MaxTrace -> UnknownMessages(1) ] : kernel_answers(tr)
    \/ (run.iopub = "running" /\ _iopub_receiver)
    \/ (run.shell = "running" /\ _shell_receiver)
    \/ (run.kernel # "none" /\ _receiver)
    \/ \E channel \in { "iopub", "shell" } : reader_raises(channel)
    \/ Kernel_run_raised
    \/ Kernel_run_cancelled

SpecRun == Init /\ [][NextRun]_vars

\* the server with two code cells whose code may raise
NextError ==
    \/ \E src \in Sources, html \in Htmls : ServerInit(src, html)
    \/ start
    \/ \E src \in { TextA, TextATB } : SourceWatcher_run_on(src, Outcomes)
    \/ _iopub_receiver
    \/ _shell_receiver
    \/ _receiver

SpecError == Init /\ [][NextError]_vars

\* the server with a kernel that also runs code which gives nothing: of such
\* a request the cell gets STATUS busy, EXECUTE_INPUT, STATUS idle and the
\* EXECUTE_REPLY
NextKernel ==
    \/ \E src \in Sources, html \in Htmls : ServerInit(src, html)
    \/ start
    \/ \E src \in { TextA, TextB } : SourceWatcher_run_on(src, QuietOutcomes)
    \/ \E hs \in { << HashA >> } : _ws_msg_handler(hs, QuietOutcomes)
    \/ _iopub_receiver
    \/ _shell_receiver
    \/ _receiver

SpecKernel == Init /\ [][NextKernel]_vars

\* the server under file changes, stopped at some time and constructed again
\* on the files it has left
NextReload ==
    \/ \E src \in Sources, html \in Htmls : ServerInit(src, html)
    \/ start
    \/ \E src \in { TextAT, TextHA, TextB } : SourceWatcher_run_on(src, Outcomes)
    \/ _iopub_receiver
    \/ _shell_receiver
    \/ _receiver
    \/ ServerInit_on_output

SpecReload == Init /\ [][NextReload]_vars

\* the page of a run that had the cells x = 1, hidden, and x = 2, both done
PageAB ==
    [ exists |-> TRUE, cells_tag |-> TRUE,
      tags |-> << Tag(HashA, { "code-cell", "hide", "done" }),
                  Tag(HashB, { "code-cell", "done" }) >> ]

\* KnitjServer._ws_msg_handler for {kind: ping}: nothing is done
_ws_msg_handler_ping ==
    /\ pc = "running"
    /\ last' = LastOp("ping", NoError)
    /\ registered' = << >>
    /\ UNCHANGED << pc, cells, order, hashids, requests, iopub, shell, applied,
                    msg_queue, watcher, receiver, nchange, parsed, _frontmatter >>
    /\ UNCHANGED << _output, introduced, bcastVars, convVars, run, _file_change >>

\* the server with every request a browser can send, a kernel that answers,
\* file changes, and a page of an earlier run to seed from
NextFrame ==
    \/ ServerInit([ exists |-> TRUE, text |-> TextA ], PageAB)
    \/ start
    \/ SourceWatcher_run_on(TextB, { "ok" })
    \/ _ws_msg_handler(<< HashA >>, { "silent" })
    \/ Kernel_restart
    \/ Kernel_interrupt
    \/ _ws_msg_handler_ping
    \/ _iopub_receiver
    \/ _shell_receiver
    \/ _receiver

SpecFrame == Init /\ [][NextFrame]_vars

\* KnitjServer.cleanup up to the loop over the tasks: the web server and the
\* kernel are released, the kernel adapter ending its three workers
cleanup_release ==
    /\ pc = "running"
    /\ pc' = "cleanup_broadcaster"
    /\ receiver' = "stopped"
    /\ last' = LastOp("cleanup", NoError)
    /\ UNCHANGED << cells, order, hashids, requests, iopub, shell, msg_queue,
                    watcher, nchange, applied, parsed, _frontmatter >>
    /\ UNCHANGED << pageVars, bcastVars, convVars, run, _file_change >>

\* KnitjServer.cleanup, the loop over the tasks at the broadcaster: cancel
\* does nothing to a task that has ended, and await task raises the error the
\* task ended with; CancelledError alone is caught
cleanup_broadcaster ==
    /\ pc = "cleanup_broadcaster"
    /\ IF bcast.at = "dead"
       THEN /\ pc' = "cleanup_raised"
            /\ last' = LastOp("cleanup", bcast.raised)
            /\ bcast' = bcast
       ELSE /\ pc' = "cleanup_watcher"
            /\ last' = last
            /\ bcast' = [ bcast EXCEPT !.at = "cancelled" ]
    /\ UNCHANGED << cells, order, hashids, requests, iopub, shell, msg_queue,
                    watcher, receiver, nchange, applied, parsed, _frontmatter >>
    /\ UNCHANGED << pageVars, _queue, _wss, peers, nreg, convVars, run, _file_change >>

\* KnitjServer.cleanup, the loop over the tasks at the watcher
cleanup_watcher ==
    /\ pc = "cleanup_watcher"
    /\ IF watcher = "dead"
       THEN /\ pc' = "cleanup_raised"
            /\ last' = LastOp("cleanup", ParsingError)
            /\ watcher' = watcher
       ELSE /\ pc' = "stopped"
            /\ last' = last
            /\ watcher' = "cancelled"
    /\ UNCHANGED << cells, order, hashids, requests, iopub, shell, msg_queue,
                    receiver, nchange, applied, parsed, _frontmatter >>
    /\ UNCHANGED << pageVars, bcastVars, convVars, run, _file_change >>

\* the broadcaster, the websocket handlers and the browsers of a started
\* server; the messages are those the handlers of the coordinator hand on
NextBroadcast ==
    \/ ServerInit(NoFile, NoPage)
    \/ start
    \/ register_message
    \/ \E ws \in Peers : handler_connect(ws)
    \/ \E ws \in Peers : connection_lost(ws)
    \/ \E ws \in Peers : handler_disconnect(ws)
    \/ Broadcaster_get
    \/ \E ws \in Peers : Broadcaster_send(ws)

SpecBroadcast == Init /\ [][NextBroadcast]_vars

\* a started server with its browsers and a watched file that may fail to
\* parse, shut down at any time
NextShutdown ==
    \/ ServerInit(NoFile, NoPage)
    \/ start
    \/ SourceWatcher_run_on(TextOpen, { "ok" })
    \/ register_message
    \/ \E ws \in Peers : handler_connect(ws)
    \/ \E ws \in Peers : connection_lost(ws)
    \/ \E ws \in Peers : handler_disconnect(ws)
    \/ Broadcaster_get
    \/ \E ws \in Peers : Broadcaster_send(ws)
    \/ cleanup_release
    \/ cleanup_broadcaster
    \/ cleanup_watcher

SpecShutdown == Init /\ [][NextShutdown]_vars

\* one conversion of a source: every text, every kernel answer
NextConvert ==
    \/ \E src \in Texts \cup { TextATB } :
           convert_start(src, ConvertOutcomes)
    \/ convert_resume
    \/ _iopub_receiver
    \/ _shell_receiver
    \/ _receiver

SpecConvert == Init /\ [][NextConvert]_vars

\* one conversion of a python source
NextPython ==
    \/ \E src \in PyTexts : convert_python(src, ConvertOutcomes)
    \/ convert_resume
    \/ _iopub_receiver
    \/ _shell_receiver
    \/ _receiver

SpecPython == Init /\ [][NextPython]_vars

\* one conversion of a source whose cells print over what they have printed
NextStream ==
    \/ \E src \in { TextA, TextATB } : convert_start(src, StreamOutcomes)
    \/ convert_resume
    \/ _iopub_receiver
    \/ _shell_receiver
    \/ _receiver

SpecStream == Init /\ [][NextStream]_vars

\* the conversion with its tasks scheduled: the event loop runs every task
\* that can go on, and the two readers get every message the kernel has sent
SpecConvertFair ==
    /\ Init
    /\ [][NextConvert]_vars
    /\ WF_vars(convert_resume)
    /\ WF_vars(_iopub_receiver)
    /\ WF_vars(_shell_receiver)
    /\ WF_vars(_receiver)

TypeOK ==
    /\ pc \in { "new", "constructed", "running", "failed", "converting", "converted",
               "reconstructed", "cleanup_broadcaster", "cleanup_watcher",
               "cleanup_raised", "stopped" }
    /\ Range(order) = DOMAIN cells
    /\ Len(hashids) <= MaxReq
    /\ Len(applied) = Len(hashids)

-----------------------------------------------------------------------------
(* Claims *)

\* the messages of request msg_id that no handler call has taken yet
Pending(msg_id) ==
    { m \in Range(iopub) \cup Range(shell) \cup Range(msg_queue) :
        m.parent = Some(msg_id) }

\* C1: once the STATUS idle of an execute request has made its cell done, no
\* message of that request is still on its way, and none is applied to the
\* cell after that
C1_AllAppliedBeforeDone ==
    \A msg_id \in DOMAIN applied :
        /\ applied[msg_id].idle => Pending(msg_id) = { }
        /\ ~ applied[msg_id].late

\* what the iopub channel alone gives: once the STATUS idle of a request was
\* applied, no iopub message of the request is still on its way
C1_IopubAppliedBeforeDone ==
    \A msg_id \in DOMAIN applied :
        applied[msg_id].idle =>
            \A m \in Pending(msg_id) : m.type = "execute_reply"

\* a request whose cell is done while its EXECUTE_REPLY has not been applied
C1_ReplyAfterDone ==
    \E msg_id \in DOMAIN applied :
        /\ applied[msg_id].late
        /\ hashids[msg_id] \in DOMAIN cells
        /\ cells[hashids[msg_id]]._done

\* a step that is one successful call of _source_handler
SourceStep == nchange' = nchange + 1 /\ last'.error = NoError

\* a step that is one reevaluate request handled by _ws_msg_handler
ReevalStep == last'.op = "reevaluate" /\ msg_queue' = msg_queue /\ vars' # vars

\* a step in which _receiver applies a STATUS idle to the stored cell h
IdleApplied(h) ==
    /\ receiver = "running"
    /\ msg_queue # << >>
    /\ msg_queue' = Tail(msg_queue)
    /\ Head(msg_queue).type = "status"
    /\ Head(msg_queue).execution_state = "idle"
    /\ Head(msg_queue).parent # None
    /\ Head(msg_queue).parent[1] \in DOMAIN hashids
    /\ hashids[Head(msg_queue).parent[1]] = h

\* a step in which _receiver applies to the stored cell h an EXECUTE_REPLY of
\* status ok, a STATUS of another state than idle, or an EXECUTE_INPUT
NeutralApplied(h) ==
    /\ receiver = "running"
    /\ msg_queue # << >>
    /\ msg_queue' = Tail(msg_queue)
    /\ \/ Head(msg_queue).type = "execute_reply" /\ Head(msg_queue).status = "ok"
       \/ Head(msg_queue).type = "status" /\ Head(msg_queue).execution_state # "idle"
       \/ Head(msg_queue).type = "execute_input"
    /\ Head(msg_queue).parent # None
    /\ Head(msg_queue).parent[1] \in DOMAIN hashids
    /\ hashids[Head(msg_queue).parent[1]] = h

\* a step in which _receiver applies a message of the kernel to the stored
\* cell h
CellApplied(h) ==
    /\ receiver = "running"
    /\ msg_queue # << >>
    /\ msg_queue' = Tail(msg_queue)
    /\ Head(msg_queue).parent # None
    /\ Head(msg_queue).parent[1] \in DOMAIN hashids
    /\ hashids[Head(msg_queue).parent[1]] = h
    /\ h \in DOMAIN cells

\* the page rendered from the document as it is
Rendered(cs, ord) == [ i \in 1..Len(ord) |-> to_html(cs[ord[i]]) ]

\* a step in which _receiver applies a STREAM message to the stored cell h
StreamApplied(h) ==
    /\ CellApplied(h)
    /\ Head(msg_queue).type = "stream"

\* the lines of a text before its last line, each with its line end; a line
\* end at the very end of the text belongs to the last line
RECURSIVE EarlierLines(_)
EarlierLines(s) ==
    IF s = << >> THEN << >>
    ELSE LET t == Slice(s, 1, Len(s) - 1)
         IN  IF t = << >> \/ t[Len(t)] = "\n" THEN t ELSE EarlierLines(t)

\* the three parts of the output div of a code cell: the stream, the error
\* and the output chosen by its MIME type, each empty when the cell has none
StreamPart(cell) ==
    IF cell._stream = << >> THEN << >>
    ELSE << "<pre>" >> \o escape(cell._stream) \o << "</pre>" >>

ErrorPart(cell) ==
    IF cell._error = None THEN << >>
    ELSE << "<pre>" >> \o cell._error[1] \o << "</pre>" >>

MimePart(cell) ==
    IF cell._output = None THEN << >>
    ELSE IF TEXT_HTML \in DOMAIN cell._output[1] THEN cell._output[1][TEXT_HTML]
    ELSE << "<pre>" >> \o escape(cell._output[1][TEXT_PLAIN]) \o << "</pre>" >>

\* the places in what convert has written that hold the html of a code cell
WrittenCode ==
    { i \in 1..Len(order) : i + 1 <= Len(written) /\ cells[order[i]].kind = "code"
                            /\ written[i + 1].part = "cell" }

\* a step that constructs the server again on the files it has left
ReloadStep == pc = "running" /\ pc' = "reconstructed"

\* the cell is done: it carries the runtime flag done or its completion fired
Done(cell) == cell.kind = "code" /\ ("done" \in cell._flags \/ cell._done)

\* the results of a cell: the done flag, the completion, stream, output, error
Results(cell) ==
    << "done" \in cell._flags, cell._done, cell.fired, cell._stream,
       cell._output, cell._error >>

\* the hashes of the cells the parser makes of a text that parses
ParsedHashes(text) ==
    LET cell_list == parse(text, 0)
    IN  { cell_list[i].hashid : i \in 1..Len(cell_list) }

\* the requests a step adds to the correlation map, in the order sent
NewRequests == [ i \in 1..(Len(hashids') - Len(hashids)) |-> hashids'[Len(hashids) + i] ]

\* a cell without its modeline flags
Runtime(cell) ==
    IF cell.kind = "code" THEN [ cell EXCEPT !.flags = { }, !._html = None ]
    ELSE [ cell EXCEPT !._html = None ]

\* C2: a successful update_from_source keeps, for every hash stored before and
\* parsed from the new text, the stored cell with its stream, output, error,
\* runtime flags and completion as they were; the hash is not among new_cells
\* and the coordinator sends no request for it
C2_KeptCellsRetained ==
    [][ SourceStep =>
          \A h \in DOMAIN cells \cap ParsedHashes(last'.input) :
              /\ h \in DOMAIN cells'
              /\ Runtime(cells'[h]) = Runtime(cells[h])
              /\ ~ Contains(last'.new_cells, h)
              /\ ~ Contains(NewRequests, h) ]_vars

\* a cell was appended to a source whose earlier cell holds an output and is
\* done, and that cell is still stored with them
C2_KeptWithOutput ==
    /\ last.op = "source"
    /\ last.error = NoError
    /\ last.new_cells # << >>
    /\ \E h \in last.kept \cap last.had :
         /\ cells[h].kind = "code"
         /\ cells[h]._output # None
         /\ cells[h]._done

\* C3: when only the modeline of a code cell changes in the source (#::hide put
\* in or taken out), the hash is the same, the stored cell stays with its
\* runtime state, the flags of the parsed cell are copied onto it, the cell is
\* the one updated cell and no new cell, and nothing is sent to the kernel
C3_FlagOnlyChangeKeepsCell ==
    [][ /\ SourceStep
        /\ \/ order = << HashA >> /\ last'.input = TextHA
           \/ order = << HashHA >> /\ last'.input = TextA
        => /\ order' = order
           /\ last'.new_cells = << >>
           /\ last'.updated_cells = order
           /\ hashids' = hashids
           /\ Runtime(cells'[order[1]]) = Runtime(cells[order[1]])
           /\ cells'[order[1]].flags =
                  (IF last'.input = TextHA THEN { "hide" } ELSE { }) ]_vars

\* the modeline was put in front of the one cell of the source: the cell of the
\* other hash is gone, and the code was sent to the kernel again
C3_FlagChangeMadeNewCell ==
    /\ last.op = "source"
    /\ last.error = NoError
    /\ last.input = TextHA
    /\ last.dropped = { HashA }
    /\ last.new_cells = << HashHA >>
    /\ last.executed = << HashHA >>

\* C4: the completion of a code cell fires at most once between a reset and
\* the next, and the cell is done exactly when it has fired; a STATUS idle
\* applied to the cell leaves it done with the completion fired once and
\* raises nothing; applied to a cell already done it changes nothing of it
C4_CompletionOncePerRound ==
    [][ /\ \A h \in DOMAIN cells' :
               cells'[h].kind = "code" =>
                   /\ cells'[h].fired <= 1
                   /\ cells'[h]._done <=> cells'[h].fired = 1
        /\ \A h \in DOMAIN cells :
               IdleApplied(h) =>
                   /\ cells'[h]._done
                   /\ cells'[h].fired = 1
                   /\ last'.error = NoError
                   /\ receiver' = "running"
                   /\ cells[h]._done =>
                          cells'[h] = [ cells[h] EXCEPT !.calls = @ + 1 ] ]_vars

\* set_done ran twice on a cell since its last reset, and the completion fired
\* once
C4_SetDoneTwice ==
    \E h \in DOMAIN cells :
        /\ cells[h].kind = "code"
        /\ cells[h].calls >= 2
        /\ cells[h].fired = 1

\* C5: when the server starts, every code cell of the first source that is not
\* done gets the runtime flag evaluating and is sent to the kernel once
C5_StartDispatchesNewCells ==
    [][ pc = "constructed" /\ pc' = "running" =>
          \A h \in DOMAIN cells :
              cells[h].kind = "code" /\ ~ cells[h]._done =>
                  /\ "evaluating" \in cells'[h]._flags
                  /\ Cardinality({ i \in DOMAIN hashids' : hashids'[i] = h }) = 1 ]_vars

\* C5, as the code has it: constructing and starting the server sends nothing
\* to the kernel and marks no cell evaluating, and a cell of the first source
\* is sent to the kernel by a reevaluate request only
C5_NothingDispatchedOnStart ==
    [][ /\ pc # "running" =>
              /\ hashids' = << >>
              /\ \A h \in DOMAIN cells' :
                     cells'[h].kind = "code" => "evaluating" \notin cells'[h]._flags
        /\ \A i \in DOMAIN NewRequests :
               cells'[NewRequests[i]].born = 0 => last'.op = "reevaluate" ]_vars

\* the server is started with a code cell that is not done, and nothing was
\* sent to the kernel
C5_StartedUndispatched ==
    /\ pc = "running"
    /\ last.op = "start"
    /\ hashids = << >>
    /\ \E h \in DOMAIN cells : cells[h].kind = "code" /\ ~ cells[h]._done

\* the cell a reset leaves of a code cell
AfterReset(cell) ==
    [ cell EXCEPT !._output = None, !._error = None, !._stream = << >>,
                  !._done = FALSE, !.fired = 0, !.calls = 0, !._html = None,
                  !._flags = @ \ { "done" } ]

\* C6: after a reevaluate request that names the code cell h, h is reset, one
\* execute was sent for it, and h carries the runtime flag evaluating and not
\* done
C6_ReevaluateMarksEvaluating ==
    [][ ReevalStep /\ last'.error = NoError =>
          \A h \in Range(last'.input) :
              /\ cells'[h]._stream = << >>
              /\ cells'[h]._output = None
              /\ cells'[h]._error = None
              /\ Cardinality({ i \in DOMAIN NewRequests : NewRequests[i] = h }) = 1
              /\ "done" \notin cells'[h]._flags
              /\ "evaluating" \in cells'[h]._flags ]_vars

\* C6, as the code has it: a reevaluate request resets each code cell it names
\* up to the first hash that is unknown or names a text cell (stream, output
\* and error cleared, completion made anew, runtime flag done removed) and
\* sends one execute for it, in the order named; the runtime flag evaluating is
\* left as it was; cells not reset are unchanged and the order of the document
\* is unchanged; and a code cell that is not done becomes done only by a
\* STATUS idle applied to it
C6_ReevaluateResetsAndExecutes ==
    [][ /\ ReevalStep =>
              /\ \A h \in Range(last'.executed) :
                     /\ h \in DOMAIN cells
                     /\ cells'[h] = AfterReset(cells[h])
              /\ NewRequests = last'.executed
              /\ \A i \in DOMAIN NewRequests :
                     requests'[Len(hashids) + i] = cells[NewRequests[i]].code
              /\ last'.error = NoError => last'.executed = last'.input
              /\ \A h \in DOMAIN cells \ Range(last'.executed) : cells'[h] = cells[h]
              /\ DOMAIN cells' = DOMAIN cells
              /\ order' = order
        /\ \A h \in DOMAIN cells \cap DOMAIN cells' :
               /\ cells[h].kind = "code"
               /\ cells'[h].kind = "code"
               /\ ~ cells[h]._done
               /\ cells'[h]._done
               => IdleApplied(h) ]_vars

\* a cell that held results was named in a reevaluate request: it is reset,
\* not done, and does not carry the runtime flag evaluating
C6_ReevaluatedHeldResults ==
    /\ last.op = "reevaluate"
    /\ last.error = NoError
    /\ \E h \in Range(last.executed) \cap last.had :
         /\ cells[h]._stream = << >>
         /\ cells[h]._output = None
         /\ ~ cells[h]._done
         /\ "evaluating" \notin cells[h]._flags

\* C7: no code cell carries the runtime flags evaluating and done together
C7_EvaluatingXorDone ==
    \A h \in DOMAIN cells :
        cells[h].kind = "code" => ~ ({ "evaluating", "done" } \subseteq cells[h]._flags)

\* a cell the coordinator marked evaluating is done and carries done alone
C7_WasEvaluatingNowDone ==
    \E h \in DOMAIN cells :
        /\ cells[h].kind = "code"
        /\ cells[h].born >= 1
        /\ cells[h]._done
        /\ cells[h]._flags = { "done" }

\* the place of the first cell of hash h in a cell list
FirstPlace(cell_list, h) ==
    CHOOSE i \in 1..Len(cell_list) :
        /\ cell_list[i].hashid = h
        /\ \A j \in 1..(i - 1) : cell_list[j].hashid # h

\* C8: after a successful update_from_source(t) the keys of the document are
\* the hashes of the cells parsed from t, each once, in the order in which
\* they first come in t; every hash that t does not give is gone
C8_OrderIsParseOrder ==
    last.op \in { "source", "init" } /\ last.error = NoError =>
        LET cell_list == parse(last.input, 0)
        IN  /\ Range(order) = ParsedHashes(last.input)
            /\ DOMAIN cells = ParsedHashes(last.input)
            /\ \A i, j \in DOMAIN order : order[i] = order[j] => i = j
            /\ \A i, j \in DOMAIN order :
                   i < j => FirstPlace(cell_list, order[i]) < FirstPlace(cell_list, order[j])
            /\ \A h \in DOMAIN cells : cells[h].hashid = h

\* a text that gives one hash twice, and not side by side, replaced a text
\* whose cell it does not give
C8_RepeatedAndDropped ==
    /\ last.op = "source"
    /\ last.error = NoError
    /\ last.dropped # { }
    /\ Len(order) >= 2
    /\ Len(parse(last.input, 0)) > Len(order)

\* C9: update_from_source called again with the text it was just called with
\* gives no new cell and no updated cell and leaves the cells and their order
\* as they are
C9_UpdateIdempotent ==
    \A t \in Texts :
        LET r1 == update_from_source(cells, order, t, nchange + 1)
        IN  r1.error = NoError =>
                LET r2 == update_from_source(r1.cells, r1.order, t, nchange + 2)
                IN  /\ r2.error = NoError
                    /\ r2.new_cells = << >>
                    /\ r2.updated_cells = << >>
                    /\ r2.cells = r1.cells
                    /\ r2.order = r1.order

\* the watcher handled a change that left the text as the document had parsed
\* it: nothing new, nothing updated, nothing sent
C9_SameTextAgain ==
    /\ last.op = "source"
    /\ last.error = NoError
    /\ last.again
    /\ order # << >>
    /\ last.new_cells = << >>
    /\ last.updated_cells = << >>
    /\ last.executed = << >>

\* C10: when the body of a code cell is edited, the cell of the old hash is
\* gone from the document, the cell of the new hash is made anew (no stream,
\* no output, no error, not done), and the coordinator sends to the kernel the
\* new code cells and no other, each once, in the order of the source
C10_EditedCellIsNew ==
    [][ SourceStep =>
          LET P == ParsedHashes(last'.input)
          IN  /\ \A h \in DOMAIN cells \ P : h \notin DOMAIN cells'
              /\ \A h \in P \ DOMAIN cells :
                     /\ h \in DOMAIN cells'
                     /\ cells'[h].kind = "code" =>
                            /\ cells'[h]._stream = << >>
                            /\ cells'[h]._output = None
                            /\ cells'[h]._error = None
                            /\ ~ cells'[h]._done
                            /\ "done" \notin cells'[h]._flags
                            /\ cells'[h].born = nchange'
              /\ NewRequests =
                     SelectIn(order', { h \in P \ DOMAIN cells : cells'[h].kind = "code" })
        ]_vars

\* the one cell of the source, which held results, was edited: its hash is
\* gone and the cell of the new hash was sent to the kernel
C10_BodyEdited ==
    /\ last.op = "source"
    /\ last.error = NoError
    /\ last.input = TextB
    /\ last.dropped = { HashA }
    /\ HashA \in last.had
    /\ last.executed = << HashB >>
    /\ cells[HashB]._output = None
    /\ ~ cells[HashB]._done

-----------------------------------------------------------------------------
\* C11: a cell that was not done becomes done only in a step in which
\* _receiver applies a STATUS idle whose parent maps to it (construction,
\* which seeds the cells from the page, aside); and applying an EXECUTE_REPLY
\* of status ok, a STATUS of another state or an EXECUTE_INPUT to a cell leaves
\* its done flag, its completion, its stream, its output and its error as
\* they were
C11_DoneOnlyByIdle ==
    [][ \A h \in DOMAIN cells' :
          /\ ( /\ pc # "new"
               /\ Done(cells'[h])
               /\ ~ (h \in DOMAIN cells /\ Done(cells[h])) )
             => IdleApplied(h)
          /\ (h \in DOMAIN cells /\ NeutralApplied(h))
             => Results(cells'[h]) = Results(cells[h]) ]_vars

\* every message of a request whose code gives nothing was applied: the cell
\* is done and holds neither stream nor output nor error
C11_QuietRequestDone ==
    /\ iopub = << >> /\ shell = << >> /\ msg_queue = << >>
    /\ receiver = "running"
    /\ \E i \in DOMAIN hashids :
          /\ hashids[i] \in DOMAIN cells
          /\ applied[i].idle
          /\ LET cell == cells[hashids[i]]
             IN  /\ cell._done /\ "done" \in cell._flags
                 /\ cell._stream = << >>
                 /\ cell._output = None
                 /\ cell._error = None

-----------------------------------------------------------------------------
\* C12: a successful _source_handler call marks the new code cells evaluating,
\* hands on one document message whose hashids are the order of the document
\* after the update and whose htmls are those of the new cells and of the
\* cells whose flags changed, no other, and sends to the kernel the new code
\* cells, each once, in the order of the source; and a cell message is handed
\* on only for a hash that a document message handed on before has listed
C12_DocumentThenCells ==
    [][ /\ SourceStep =>
             LET P       == ParsedHashes(last'.input)
                 new     == P \ DOMAIN cells
                 flagged == { h \in P \cap DOMAIN cells :
                                /\ cells[h].kind = "code"
                                /\ cells'[h].flags # cells[h].flags }
                 newcode == SelectIn(order', { h \in new : cells'[h].kind = "code" })
             IN  /\ Len(registered') = 1
                 /\ registered'[1].kind = "document"
                 /\ registered'[1].hashids = order'
                 /\ DOMAIN registered'[1].htmls = new \cup flagged
                 /\ \A h \in DOMAIN registered'[1].htmls :
                        registered'[1].htmls[h] = to_html(cells'[h])
                 /\ \A h \in Range(newcode) :
                        /\ "evaluating" \in cells'[h]._flags
                        /\ Contains(registered'[1].htmls[h].classes, "evaluating")
                 /\ NewRequests = newcode
        /\ \A i \in DOMAIN registered' :
               registered'[i].kind = "cell" => registered'[i].hashid \in introduced
      ]_vars

\* a cell message is handed on for a cell that a file change brought into a
\* document of several cells
C12_CellMessageAfterDocument ==
    /\ Len(registered) = 1
    /\ registered[1].kind = "cell"
    /\ registered[1].hashid \in introduced
    /\ registered[1].hashid \in DOMAIN cells
    /\ cells[registered[1].hashid].born >= 1
    /\ Len(order) >= 2

-----------------------------------------------------------------------------
\* C13: every event that advances the state of the document, a file change, a
\* kernel message applied to a cell, and the reset of a cell by a reevaluate
\* request, hands a cell message or a document message to the broadcaster
C13_EveryAdvanceBroadcasts ==
    [][ ( \/ SourceStep
          \/ \E h \in DOMAIN cells : CellApplied(h)
          \/ ReevalStep /\ last'.executed # << >> )
        => \E i \in DOMAIN registered' : registered'[i].kind \in { "cell", "document" }
      ]_vars

\* C13, as the code has it: a file change hands on one document message and a
\* kernel message applied to a cell hands on one cell message with the html of
\* the cell after it; a reevaluate request hands on nothing and leaves the
\* output file as it was, whatever it has reset
C13_AdvanceBroadcastsButReset ==
    [][ /\ SourceStep =>
             /\ Len(registered') = 1
             /\ registered'[1].kind = "document"
        /\ \A h \in DOMAIN cells :
               CellApplied(h) =>
                   registered' = << [ kind |-> "cell", hashid |-> h,
                                      html |-> to_html(cells'[h]) ] >>
        /\ ReevalStep =>
             /\ registered' = << >>
             /\ _output' = _output
      ]_vars

\* a reevaluate request has reset a cell that held results, nothing was handed
\* on, and the output file still holds the page with the results
C13_ResetNotBroadcast ==
    /\ last.op = "reevaluate"
    /\ Range(last.executed) \cap last.had # { }
    /\ registered = << >>
    /\ _output # None
    /\ _output[1] # Rendered(cells, order)

-----------------------------------------------------------------------------
\* C14: once a handler has handed a cell message or a document message to the
\* broadcaster, the output file holds the whole page rendered from the
\* document as it is then, every cell in the order of the document, and it
\* stays so until the next handler call: the file never lags behind a message
C14_FileMatchesBroadcast ==
    (\E i \in DOMAIN registered : registered[i].kind \in { "cell", "document" })
        => /\ _output = Some(Rendered(cells, order))
           /\ \A i \in DOMAIN registered :
                  registered[i].kind = "cell" =>
                      \E j \in DOMAIN order :
                          /\ order[j] = registered[i].hashid
                          /\ _output[1][j] = registered[i].html

\* a cell message with an output was handed on for a cell of a document of
\* several cells, and the file holds the page with that output
C14_PageWrittenWithCell ==
    /\ Len(registered) = 1
    /\ registered[1].kind = "cell"
    /\ registered[1].html.output # << >>
    /\ Len(order) >= 2
    /\ _output = Some(Rendered(cells, order))

-----------------------------------------------------------------------------
\* C15: a browser that disconnects while the broadcaster sends a message to
\* the browsers, its websocket removed from the set by the handler, stops
\* neither the broadcaster nor a handler
C15_DisconnectStopsNothing ==
    /\ bcast.at # "dead"
    /\ \A ws \in Peers : peers[ws].handler # "KeyError"

\* the handler of a browser that went away has removed its websocket and has
\* returned, the broadcaster has stopped, and a message is left on the queue
\* that the browser still connected never gets
C15_BroadcasterStopped ==
    /\ bcast.at = "dead"
    /\ _queue # << >>
    /\ \E ws \in Peers : peers[ws].handler = "returned"
    /\ \E ws \in _wss : peers[ws].transport = "open" /\ peers[ws].handler = "reading"

-----------------------------------------------------------------------------
-----------------------------------------------------------------------------
\* C17: when the send to a browser raises ConnectionResetError, the websocket
\* is removed from the set, the broadcaster goes on with the same message and
\* the browsers left in the list, and it does not stop
C17_ResetPeerDropped ==
    [][ ( /\ bcast.at = "send"
          /\ bcast' # bcast
          /\ bcast'.raised # "none" )
        => \E ws \in bcast.todo :
              /\ ws \notin _wss'
              /\ bcast'.at # "dead"
              /\ bcast'.msg = bcast.msg
              /\ bcast'.todo = bcast.todo \ { ws } ]_vars

\* the send to a browser that is gone has ended the broadcaster while a
\* connected browser of the list had not got the message
C17_ResetEndedFanOut ==
    /\ bcast.at = "dead"
    /\ bcast.raised = "KeyError"
    /\ \E ws \in bcast.todo \cap _wss :
          /\ peers[ws].transport = "open"
          /\ ~ Contains(peers[ws].received, bcast.msg)

-----------------------------------------------------------------------------
\* C18: what convert has written is the head of the page, then the html of
\* the cells in the order of the document, one each, and at the end the rest
\* of the page; the html of a code cell is written only when its completion
\* has fired and is the html of the cell with its results, whatever the order
\* in which the answers of the kernel are applied and whatever cell fails
C18_OutputInSourceOrder ==
    pc \in { "converting", "converted" } =>
        LET n == IF pc = "converted" THEN Len(written) - 2 ELSE Len(written) - 1
        IN  /\ Len(written) >= 1
            /\ written[1] = front
            /\ n \in 0..Len(order)
            /\ pc = "converted" => n = Len(order) /\ written[Len(written)] = back
            /\ \A i \in 1..n :
                   /\ written[i + 1].part = "cell"
                   /\ written[i + 1].html.hashid = order[i]
                   /\ written[i + 1].html = to_html(cells[order[i]])
                   /\ cells[order[i]].kind = "code" =>
                          /\ cells[order[i]]._done
                          /\ Contains(written[i + 1].html.classes, "done")

\* a source of two code cells around prose was converted, the first cell
\* having failed and the second having given a value
C18_ConvertedWithFailure ==
    /\ pc = "converted"
    /\ Len(order) = 3
    /\ cells[order[1]].kind = "code" /\ cells[order[1]]._error # None
    /\ cells[order[2]].kind = "text"
    /\ cells[order[3]].kind = "code" /\ cells[order[3]]._output # None
    /\ Len(written) = 5

-----------------------------------------------------------------------------
-----------------------------------------------------------------------------
\* C20: load_output_from_html applied to the page rendered from a document
\* restores it: the order and the hashes are as before, every code cell that
\* was rendered done is done again, the flag hide is on the cells it was on,
\* and the output div of every code cell, rendered again, is the same text
C20_RoundTripRestores ==
    [][ ReloadStep =>
          /\ order' = order
          /\ DOMAIN cells' = DOMAIN cells
          /\ \A h \in DOMAIN cells :
                cells[h].kind = "code" =>
                    /\ "done" \in cells[h]._flags =>
                           cells'[h]._done /\ "done" \in cells'[h]._flags
                    /\ "hide" \in cells'[h].flags <=> "hide" \in cells[h].flags
                    /\ to_html(cells'[h]).output = to_html(cells[h]).output ]_vars

\* what the round trip does keep: order, hashes, the done cells done, the
\* flag hide, and as output the whole output div that was rendered, its own
\* tags included, under text/html
C20_RoundTripKeepsFlagsAndOrder ==
    [][ ReloadStep =>
          /\ order' = order
          /\ DOMAIN cells' = DOMAIN cells
          /\ \A h \in DOMAIN cells :
                cells[h].kind = "code" =>
                    /\ "done" \in cells[h]._flags =>
                           cells'[h]._done /\ "done" \in cells'[h]._flags
                    /\ "hide" \in cells'[h].flags <=> "hide" \in cells[h].flags
                    /\ to_html(cells'[h]).output =
                           << "<div class=output>" >> \o to_html(cells[h]).output
                               \o << "</div>" >> ]_vars

\* a cell that the kernel gave a stream and a value was rendered, and the
\* document built again from the page holds the output div inside its output
C20_OutputDivNested ==
    /\ pc = "reconstructed"
    /\ \E h \in DOMAIN cells :
          /\ cells[h].kind = "code"
          /\ cells[h]._done
          /\ cells[h]._output # None
          /\ TEXT_HTML \in DOMAIN cells[h]._output[1]
          /\ cells[h]._output[1][TEXT_HTML][1] = "<div class=output>"
          /\ Contains(cells[h]._output[1][TEXT_HTML], "<pre>")
          /\ cells[h]._stream = << >>

-----------------------------------------------------------------------------
\* C21: a code cell that construction has seeded as done from the page of an
\* earlier run is sent to the kernel neither when the server is constructed
\* and started nor when a later file change gives a text that still holds its
\* hash; it stays done with the output of the page
C21_SeededNotDispatched ==
    [][ /\ pc \in { "new", "constructed" } => hashids' = << >>
        /\ SourceStep =>
              \A h \in DOMAIN cells \cap ParsedHashes(last'.input) :
                  ( /\ cells[h].kind = "code"
                    /\ cells[h]._done
                    /\ ~ Contains(hashids, h) )
                  => /\ ~ Contains(NewRequests, h)
                     /\ cells'[h]._done
                     /\ cells'[h]._output = cells[h]._output ]_vars

\* a file change has brought a new cell into the document, next to a cell
\* seeded as done that was never sent to the kernel
C21_SeededKeptBesideNew ==
    /\ last.op = "source"
    /\ last.error = NoError
    /\ last.new_cells # << >>
    /\ hashids = << >>
    /\ \E h \in DOMAIN cells :
          /\ cells[h].kind = "code"
          /\ cells[h]._done
          /\ cells[h]._output # None
          /\ ~ Contains(hashids, h)

-----------------------------------------------------------------------------
\* C22: a STREAM text that starts with a carriage return replaces the last
\* line of the stream of the cell by the rest of the text and leaves the
\* lines before it as they were, so that after STREAM a \n, STREAM \r b and
\* STATUS idle the stream of the cell is b; and the cell is done after its
\* STATUS idle
C22_CarriageReturnOverwrites ==
    [][ \A h \in DOMAIN cells :
          /\ ( /\ StreamApplied(h)
               /\ Head(Head(msg_queue).text) = "\r" )
             => cells'[h]._stream =
                    EarlierLines(cells[h]._stream) \o Tail(Head(msg_queue).text)
          /\ IdleApplied(h) => cells'[h]._done ]_vars

\* C22, what holds of the stream: when the stream has no line end, the text
\* after the carriage return replaces it; otherwise the stream is cut before
\* its last line end and the text is put right after the cut
C22_LastLineEndDropped ==
    [][ \A h \in DOMAIN cells :
          ( /\ StreamApplied(h)
            /\ Head(Head(msg_queue).text) = "\r" )
          => LET old == cells[h]._stream
                 cut == IF Contains(old, "\n")
                        THEN Slice(old, 1, (CHOOSE i \in DOMAIN old :
                                               /\ old[i] = "\n"
                                               /\ \A j \in DOMAIN old :
                                                      old[j] = "\n" => j <= i) - 1)
                        ELSE << >>
             IN  cells'[h]._stream = cut \o Tail(Head(msg_queue).text) ]_vars

\* STREAM a \n, STREAM \r b and STATUS idle were applied to a cell: it is done
\* and its stream is a b
C22_LineEndLost ==
    \E i \in DOMAIN hashids :
        /\ applied[i].idle
        /\ hashids[i] \in DOMAIN cells
        /\ cells[hashids[i]]._done
        /\ cells[hashids[i]]._stream = << "a", "b" >>

-----------------------------------------------------------------------------
\* C23: in the output div of a rendered code cell the error comes first, the
\* streamed text after it, and the output chosen by its MIME type last
C23_ErrorStreamOutput ==
    \A i \in WrittenCode :
        written[i + 1].html.output =
            ErrorPart(cells[order[i]]) \o StreamPart(cells[order[i]])
                \o MimePart(cells[order[i]])

\* C23, as the code has it: in the output div of a rendered code cell the
\* streamed text comes first, the error after it, and the output chosen by
\* its MIME type last
C23_StreamErrorOutput ==
    \A i \in WrittenCode :
        written[i + 1].html.output =
            StreamPart(cells[order[i]]) \o ErrorPart(cells[order[i]])
                \o MimePart(cells[order[i]])

\* the html of a cell that has printed, shown something and then failed was
\* written
C23_AllThreeRendered ==
    \E i \in WrittenCode :
        /\ cells[order[i]]._stream # << >>
        /\ cells[order[i]]._error # None
        /\ cells[order[i]]._output # None
        /\ written[i + 1].html.output[1] = "<pre>"
        /\ written[i + 1].html.output[2] = "1"

\* a step that is one call of _source_handler which ParsingError left
FailedSourceStep == nchange' = nchange + 1 /\ last'.error = ParsingError

\* C24: a call of _source_handler on a text that does not parse raises
\* ParsingError and leaves the cells of the document with their state, their
\* order and the frontmatter as they were; nothing is broadcast, nothing is
\* written to the output file and nothing is sent to the kernel
C24_FailedParseChangesNothing ==
    [][ /\ \A src \in ParseTexts :
             (parse(src, 0) = ParsingError /\ nchange' = nchange + 1
                 /\ last'.input = src) => last'.error = ParsingError
        /\ FailedSourceStep =>
             /\ cells' = cells
             /\ order' = order
             /\ _frontmatter' = _frontmatter
             /\ registered' = << >>
             /\ _output' = _output
             /\ hashids' = hashids
             /\ requests' = requests
             /\ iopub' = iopub
             /\ shell' = shell ]_vars

\* a text with a frontmatter failed to parse on a document that holds another
\* frontmatter, a cell with a result and a written page
C24_FailedOnLiveDocument ==
    /\ last.op = "source"
    /\ last.error = ParsingError
    /\ last.input = TextFOpen
    /\ _frontmatter = Some(yaml_load(<< "title: one" >>))
    /\ _output # None
    /\ \E h \in DOMAIN cells : Done(cells[h])

\* the message at the head of the queue has no cell: it has no parent, its
\* parent is no request of the server, or the cell of its request has left the
\* document
HeadOrphan ==
    /\ msg_queue # << >>
    /\ LET msg == Head(msg_queue)
       IN  \/ msg.parent = None
           \/ msg.parent[1] \notin DOMAIN hashids
           \/ hashids[msg.parent[1]] \notin DOMAIN cells

\* C25: a kernel message without a parent, with a parent that is not in the
\* correlation map, or with a parent whose cell is no longer in the document
\* changes no cell, gives no cell message and no write of the output file, and
\* raises no error
C25_OrphanMessageIgnored ==
    [][ (HeadOrphan /\ msg_queue' = Tail(msg_queue)) =>
            /\ cells' = cells
            /\ order' = order
            /\ _output' = _output
            /\ \A i \in DOMAIN registered' : registered'[i].kind # "cell"
            /\ last'.error = NoError
            /\ receiver' = receiver ]_vars

\* a STATUS starting without a parent was handled while the document holds a
\* cell with a result and the page is written: kernel_starting is all that was
\* registered, and the receiver runs on
C25_ParentlessHandled ==
    /\ last.op = "kernel"
    /\ last.error = NoError
    /\ registered = << [ kind |-> "kernel_starting" ] >>
    /\ receiver = "running"
    /\ _output # None
    /\ \E h \in DOMAIN cells : Done(cells[h])

\* the cells without the memo of their html
Forget(cs) == [ k \in DOMAIN cs |-> [ cs[k] EXCEPT !._html = None ] ]

\* a step in which _receiver applies to the stored cell h an ERROR or an
\* EXECUTE_REPLY of status error
ErrorApplied(h) ==
    /\ CellApplied(h)
    /\ \/ Head(msg_queue).type = "error"
       \/ Head(msg_queue).type = "execute_reply" /\ Head(msg_queue).status = "error"

\* C26: an ERROR or an EXECUTE_REPLY of status error for cell h sets the error
\* of h and nothing else of any cell; the handler raises nothing and the
\* receiver runs on; the STATUS idle of the request still makes h done, with
\* its error; and messages of other cells are applied while h holds an error
C26_ErrorOnlySetsError ==
    [][ \A h \in DOMAIN cells :
          /\ ErrorApplied(h) =>
                /\ Forget(cells') =
                      Forget([ cells EXCEPT ![h]._error =
                                 Some(ansi_convert(Head(msg_queue).traceback)) ])
                /\ last'.error = NoError
                /\ receiver' = "running"
                /\ registered' = << CellMessage(cells', h) >>
          /\ (IdleApplied(h) /\ cells[h]._error # None) =>
                /\ cells'[h]._done
                /\ "done" \in cells'[h]._flags
                /\ cells'[h]._error = cells[h]._error
          /\ (CellApplied(h) /\ \E k \in DOMAIN cells \ { h } :
                                  cells[k].kind = "code" /\ cells[k]._error # None) =>
                /\ last'.error = NoError
                /\ registered' = << CellMessage(cells', h) >>
                /\ Forget(cells') =
                      Forget(process_message(cells, Head(msg_queue), h).cells) ]_vars

\* the first cell raised and is done with its error and what it had shown,
\* the second was applied after that and is done with its value, and the
\* receiver still runs
C26_FailedCellDoneOthersApplied ==
    /\ receiver = "running"
    /\ { HashA, HashB } \subseteq DOMAIN cells
    /\ cells[HashA]._error # None
    /\ cells[HashA]._output # None
    /\ cells[HashA]._done
    /\ cells[HashB]._error = None
    /\ cells[HashB]._output # None
    /\ cells[HashB]._done
    /\ msg_queue = << >>

\* cleanup has ended: it returned or it raised
CleanupEnded == pc \in { "stopped", "cleanup_raised" }

\* C27: when cleanup ends, from whatever state it was called in, the
\* broadcaster and the watcher have each been cancelled or had ended before,
\* each was awaited, the kernel and the web server are released, and cleanup
\* returned
C27_ShutdownCancelsAll ==
    CleanupEnded =>
        /\ pc = "stopped"
        /\ bcast.at \in { "cancelled", "dead" }
        /\ watcher \in { "cancelled", "dead" }
        /\ receiver = "stopped"

\* what cleanup gives: the kernel and the web server are released first, and
\* the tasks are cancelled and awaited in their order up to the first that
\* had ended with an error, which cleanup raises
C27_CancelsUpToFirstFailed ==
    CleanupEnded =>
        /\ receiver = "stopped"
        /\ pc = "stopped" => bcast.at = "cancelled" /\ watcher = "cancelled"
        /\ pc = "cleanup_raised" =>
              \/ bcast.at = "dead" /\ last.error = "KeyError"
              \/ bcast.at = "cancelled" /\ watcher = "dead"
                    /\ last.error = ParsingError

\* cleanup raised the KeyError the broadcaster had ended with, and the watcher
\* was neither cancelled nor awaited
C27_WatcherLeftRunning ==
    /\ pc = "cleanup_raised"
    /\ last.error = "KeyError"
    /\ bcast.at = "dead"
    /\ watcher = "running"

\* C28: the correlation map only grows: every step keeps each entry it had,
\* and it gains exactly one entry msg_id -> h, after those it had, for each
\* request the step sends to the kernel, h being the cell whose code was sent
C28_CorrelationMapOnlyGrows ==
    [][ /\ Len(hashids') >= Len(hashids)
        /\ SubSeq(hashids', 1, Len(hashids)) = hashids
        /\ Len(hashids') - Len(hashids) = Len(requests') - Len(requests)
        /\ \A msg_id \in (Len(hashids) + 1)..Len(hashids') :
              /\ hashids'[msg_id] \in DOMAIN cells'
              /\ requests'[msg_id] = cells'[hashids'[msg_id]].code
        /\ Len(hashids') - Len(hashids) > 1 => last'.op = "source" ]_vars

\* the map holds two requests, the first for a cell that has left the
\* document, after the kernel was restarted and messages were handled
C28_EntriesOutliveCellAndRestart ==
    /\ Len(hashids) = MaxReq
    /\ hashids[1] \notin DOMAIN cells
    /\ last.op = "kernel"
    /\ \E m \in Range(iopub) : m = Starting
    /\ \E m \in Range(iopub) :
          m.type = "error" /\ m.traceback = Interrupted(m.parent[1])

\* the hash the correlation map holds for the parent of msg, None without one
ParentHash(msg) ==
    IF msg.parent # None /\ msg.parent[1] \in DOMAIN hashids
    THEN hashids[msg.parent[1]] ELSE None

\* C29: the queue of the kernel adapter changes only by a receive worker
\* putting the message it read at the end, or by the pump taking the message
\* at the front; the pump hands that one message to the handler together
\* with the hash the correlation map holds for its parent, so the cell of that
\* hash, and no other, takes the message and is broadcast
C29_PumpInEnqueueOrder ==
    [][ /\ \/ msg_queue' = msg_queue
           \/ iopub # << >> /\ iopub' = Tail(iopub)
                /\ msg_queue' = Append(msg_queue, Head(iopub))
           \/ shell # << >> /\ shell' = Tail(shell)
                /\ msg_queue' = Append(msg_queue, Head(shell))
           \/ msg_queue # << >> /\ msg_queue' = Tail(msg_queue)
        /\ (msg_queue # << >> /\ msg_queue' = Tail(msg_queue)) =>
              LET msg    == Head(msg_queue)
                  hashid == ParentHash(msg)
              IN  /\ last'.op = "kernel"
                  /\ Forget(cells') = Forget(process_message(cells, msg, hashid).cells)
                  /\ (hashid # None /\ hashid \in DOMAIN cells) =>
                        registered' = << CellMessage(cells', hashid) >> ]_vars

\* the pump has handed on a message while the answers of two requests wait
\* in the queue, one read from the shell channel before one read from iopub
C29_TwoChannelsQueued ==
    /\ last.op = "kernel"
    /\ \E i, j \in DOMAIN msg_queue :
          /\ i < j
          /\ msg_queue[i].type = "execute_reply"
          /\ msg_queue[j].type # "execute_reply"
          /\ msg_queue[i].parent # msg_queue[j].parent

\* a step of a worker thread: the observer hands the path of an event to the
\* queue of the watcher, or a read of a kernel channel in the executor gives a
\* message, which goes to the queue of the adapter
WorkerStep ==
    \/ Len(_file_change') = Len(_file_change) + 1
    \/ Len(msg_queue') = Len(msg_queue) + 1

\* the document is the whole outcome of the last text that parsed: its cells
\* are those of the text, in the order of the text
WhollyApplied ==
    /\ Range(order) = DOMAIN cells
    /\ parsed = None => order = << >>
    /\ parsed # None => order = OrderedKeys(parse(parsed[1], 0))

\* C30: a step of a worker thread changes nothing of the document, the cells
\* or the correlation map, it only adds to a queue of the loop; the document
\* and the map change only in a step of the loop that takes the front of one
\* of the two queues; and the document any step finds is the whole outcome
\* of an update_from_source, never a part of one
C30_WorkersOnlyFeedQueues ==
    /\ [] WhollyApplied
    /\ [][ /\ WorkerStep =>
                /\ cells' = cells
                /\ order' = order
                /\ hashids' = hashids
                /\ _frontmatter' = _frontmatter
                /\ _output' = _output
                /\ registered' = registered
           /\ (pc = "running" /\
                 (cells' # cells \/ order' # order \/ hashids' # hashids)) =>
                \/ msg_queue # << >> /\ msg_queue' = Tail(msg_queue)
                \/ /\ _file_change # << >>
                   /\ Head(_file_change) = TargetPath
                   /\ _file_change' = Tail(_file_change) ]_vars

\* a change of the file was applied from the queue while another event and
\* answers of the kernel wait, each in its queue
C30_AppliedWhileOthersQueued ==
    /\ last.op = "source"
    /\ last.error = NoError
    /\ Len(order) > 1
    /\ _file_change # << >>
    /\ msg_queue # << >>
    /\ hashids # << >>

\* a step in which the watcher takes the event at the front of its queue
EventTaken == _file_change # << >> /\ _file_change' = Tail(_file_change)

\* C31: the queue of the watcher changes only by an event put at its end or
\* by the watcher taking the event at its front; the handler is called in no
\* other step than one that takes an event of the watched file, once in that
\* step; an event of another file is taken without a call and without any
\* change to the document
C31_HandlerOnlyForTarget ==
    [][ /\ \/ _file_change' = _file_change
           \/ \E path \in { TargetPath, OtherPath } :
                 _file_change' = Append(_file_change, path)
           \/ EventTaken
        /\ (pc = "running" /\
              (nchange' # nchange \/ (last'.op = "source" /\ last' # last))) =>
              /\ EventTaken
              /\ Head(_file_change) = TargetPath
              /\ nchange' = nchange + 1
              /\ last'.op = "source"
        /\ (EventTaken /\ Head(_file_change) = TargetPath) =>
              /\ nchange' = nchange + 1
              /\ last'.op = "source"
              /\ last'.input \in { TextA, TextATB, TextOpen }
        /\ (EventTaken /\ Head(_file_change) # TargetPath) =>
              /\ nchange' = nchange
              /\ last' = last
              /\ cells' = cells
              /\ order' = order
              /\ hashids' = hashids
              /\ watcher' = watcher ]_vars

\* the handler was called for every change the bound allows while an event of
\* another file is at the front of the queue
C31_CalledTwiceOtherWaits ==
    /\ nchange = MaxChanges
    /\ last.op = "source"
    /\ last.error = NoError
    /\ _file_change # << >>
    /\ Head(_file_change) = OtherPath

\* C32: whenever a code cell holds a memoized html, it is the rendering of the
\* cell as it is now: of its code, stream, output, error and both sets of flags
C32_MemoIsRendering ==
    \A h \in DOMAIN cells :
        (cells[h].kind = "code" /\ cells[h]._html # None) =>
            cells[h]._html[1] = to_html(cells[h])

\* a cell seeded with the hide flag from the page was evaluated again: it holds
\* a memo, a stream, an output and the done flag
C32_MemoAfterEveryMutation ==
    \E h \in DOMAIN cells :
        /\ cells[h].kind = "code"
        /\ cells[h]._html # None
        /\ "hide" \in cells[h].flags
        /\ cells[h]._stream # << >>
        /\ cells[h]._output # None
        /\ cells[h]._done
        /\ last.op = "kernel"
        /\ Len(hashids) = MaxReq

\* the cells after message a and then message b were applied to cell h
Apply2(h, a, b) ==
    process_message(process_message(cells, a, h).cells, b, h).cells

\* the two messages at the front of the queue belong to the stored cell h
FrontPairFor(h) ==
    /\ Len(msg_queue) >= 2
    /\ h \in DOMAIN cells
    /\ ParentHash(msg_queue[1]) = h
    /\ ParentHash(msg_queue[2]) = h

C33_TwoStreamsQueued ==
    /\ FrontPairFor(HashA)
    /\ msg_queue[1].type = "stream"
    /\ msg_queue[2].type = "stream"
    /\ Apply2(HashA, msg_queue[1], msg_queue[2])[HashA]._stream
         # Apply2(HashA, msg_queue[2], msg_queue[1])[HashA]._stream

\* the types of message process_message has a branch for
HandledTypes ==
    { "execute_result", "stream", "display_data", "execute_reply", "error",
      "status", "execute_input" }

\* C34: a message of a type outside the handled ones, for a cell the document
\* holds, makes the handler fail with the error process_message raises; no
\* cell changes, no cell message is registered and the page is not written
C34_UnknownTypeFails ==
    [][ \A h \in DOMAIN cells :
          (CellApplied(h) /\ Head(msg_queue).type \notin HandledTypes) =>
              /\ last'.op = "kernel"
              /\ last'.error = "ValueError"
              /\ cells' = cells
              /\ registered' = << >>
              /\ _output' = _output
              /\ receiver' = "dead" ]_vars

\* a cell that has printed was handed a message of an unknown type: the
\* handler failed and the cell is as it was, not done
C34_FailedOnPrintedCell ==
    /\ last.op = "kernel"
    /\ last.error = "ValueError"
    /\ receiver = "dead"
    /\ HashA \in DOMAIN cells
    /\ cells[HashA]._stream # << >>
    /\ ~ cells[HashA]._done

\* the last call of the handler failed on a text that does not parse, and an
\* event of the watched file waits at the front of the queue as change n + 1
EventWaitsAfterFailure(n) ==
    /\ last.op = "source"
    /\ last.error = ParsingError
    /\ nchange = n
    /\ _file_change # << >>
    /\ Head(_file_change) = TargetPath

\* C35: after a call of the handler has failed with ParsingError, an event of
\* the watched file that waits in the queue still leads to a call of the
\* handler
C35_LaterEventHandled ==
    \A n \in 1..(MaxChanges - 1) :
        EventWaitsAfterFailure(n) ~> (nchange = n + 1)

\* what the code gives: the error of the handler ends the watcher task, and
\* from then on no event is taken and the handler is not called again
C35_FailureEndsWatcher ==
    /\ [] ((last.op = "source" /\ last.error = ParsingError) => watcher = "dead")
    /\ [][ watcher = "dead" =>
             /\ watcher' = "dead"
             /\ nchange' = nchange
             /\ Len(_file_change') >= Len(_file_change) ]_vars

\* the watcher has ended with the first change, and an event of the watched
\* file waits in its queue
C35_EventNeverTaken ==
    /\ watcher = "dead"
    /\ EventWaitsAfterFailure(1)
    /\ Len(_file_change) = MaxEvents

-----------------------------------------------------------------------------
(* Parsing a python source *)

\* a python source in which a prose cell is open at the end of the text: a
\* marker line that only lines beginning with # follow
PyUnclosed(text) ==
    LET t == rstrip(Slice(text, python_frontmatter_end(text) + 1, Len(text)))
    IN  \E m \in 1..Len(t) :
            /\ t[m] \in MarkerLines
            /\ \A j \in (m + 1)..Len(t) : t[j] \in HashLines

\* C36: in code mode a prose cell that is opened by a marker line and never
\* closed by a line that does not begin with # makes the parser fail with
\* ParsingError, and with no other error, and no cell list is returned: the
\* conversion fails and the document stays empty
C36_UnclosedProseFails ==
    (last.op = "convert" /\ PyUnclosed(last.input))
        => /\ pc = "failed"
           /\ last.error = ParsingError
           /\ order = << >>

\* what the parser does instead: it never raises ParsingError; the open prose
\* cell is ended by the end of the text and a cell list is returned, unless
\* what follows the marker makes chunk[0] fail
C36_UnclosedProseNeverParsingError ==
    (last.op = "convert" /\ PyUnclosed(last.input))
        => /\ last.error \in { NoError, IndexError, AssertionError }
           /\ last.error = NoError =>
                /\ order # << >>
                /\ cells[order[Len(order)]].kind = "text"
                      \/ "_template" \in DOMAIN cells[order[Len(order)]]

\* a python source whose last prose cell is left open was parsed: the
\* document holds its code cell and the open prose as a text cell
C36_UnclosedProseParsed ==
    /\ last.op = "convert"
    /\ last.input = PyOpen
    /\ PyUnclosed(PyOpen)
    /\ last.error = NoError
    /\ Len(order) = 2
    /\ cells[order[1]].kind = "code"
    /\ cells[order[2]].kind = "text"
    /\ cells[order[2]].content = << "Text", "More" >>

\* a marker as the last line of the source ends the conversion with an
\* IndexError
C36_MarkerLastIndexError ==
    /\ last.op = "convert"
    /\ last.input = PyMarkLast
    /\ pc = "failed"
    /\ last.error = IndexError

-----------------------------------------------------------------------------
(* Rounds of a cell *)

\* a step in which _receiver takes a message of an execute request of the
\* stored cell h that is not the last request sent for h
StaleApplied(h) ==
    /\ receiver = "running"
    /\ msg_queue # << >>
    /\ msg_queue' = Tail(msg_queue)
    /\ Head(msg_queue).parent # None
    /\ Head(msg_queue).parent[1] \in DOMAIN hashids
    /\ hashids[Head(msg_queue).parent[1]] = h
    /\ \E later \in DOMAIN hashids :
           later > Head(msg_queue).parent[1] /\ hashids[later] = h

\* C37: after a cell was reevaluated, or dropped and added again with the
\* same hash, a message of an earlier execute request of the cell does not
\* mark the new round done and does not change its stream, output or error
C37_StaleMessageIgnored ==
    [][ \A h \in DOMAIN cells \cap DOMAIN cells' :
            (cells[h].kind = "code" /\ StaleApplied(h)) =>
                /\ cells'[h]._done = cells[h]._done
                /\ cells'[h]._stream = cells[h]._stream
                /\ cells'[h]._output = cells[h]._output
                /\ cells'[h]._error = cells[h]._error ]_vars

\* what the code gives: the correlation map leads a message of an earlier
\* request to the cell that holds the hash now, and the message is applied to
\* it as any other
C37_StaleMessageApplied ==
    [][ \A h \in DOMAIN cells :
            StaleApplied(h) =>
                Forget(cells') = Forget(process_message(cells, Head(msg_queue), h).cells)
      ]_vars

\* the cell x = 1 was asked for twice; the STATUS idle of the first request
\* has been applied and the cell is done, while the STATUS idle of the second
\* request is still on its way
C37_DoneByEarlierRequest ==
    /\ Len(hashids) = 2
    /\ hashids[1] = HashA
    /\ hashids[2] = HashA
    /\ applied[1].idle
    /\ ~ applied[2].idle
    /\ \E m \in Pending(2) : m.type = "status" /\ m.execution_state = "idle"
    /\ HashA \in DOMAIN cells
    /\ cells[HashA]._done
    /\ "done" \in cells[HashA]._flags

\* the cell x = 1 was dropped and added again: the cell of the second parse
\* shows what the first request printed, with every message of the second
\* request still on its way
C37_StreamOfEarlierRequest ==
    /\ Len(hashids) = 2
    /\ hashids[1] = HashA
    /\ hashids[2] = HashA
    /\ HashA \in DOMAIN cells
    /\ cells[HashA].born > 0
    /\ cells[HashA]._stream # << >>
    /\ \E o \in Outcomes : Range(IopubScript(2, o)) \subseteq Pending(2)

-----------------------------------------------------------------------------
(* The runtime flag done and the completion *)

\* C38: in every reachable state a code cell has the runtime flag done
\* exactly when its completion has fired, and no step changes one of the two
\* without the other
C38_DoneFlagIffFired ==
    /\ [] (\A h \in DOMAIN cells :
              cells[h].kind = "code" =>
                  /\ ("done" \in cells[h]._flags) <=> cells[h]._done
                  /\ cells[h]._done <=> (cells[h].fired = 1))
    /\ [][ \A h \in DOMAIN cells \cap DOMAIN cells' :
              cells[h].kind = "code" =>
                  (("done" \in cells'[h]._flags) # ("done" \in cells[h]._flags))
                      <=> (cells'[h]._done # cells[h]._done) ]_vars

\* the cell x = 1 was done by the STATUS idle of its first request and then
\* reset by a reevaluate request: it has neither the flag nor a fired
\* completion, and is marked evaluating
C38_ResetAfterDone ==
    /\ last.op = "reevaluate"
    /\ Len(hashids) = 2
    /\ applied[1].idle
    /\ ~ applied[2].idle
    /\ HashA \in DOMAIN cells
    /\ ~ cells[HashA]._done
    /\ "done" \notin cells[HashA]._flags

-----------------------------------------------------------------------------
(* The entries of the document *)

\* a step that holds a call of Document.update_from_source: the constructor,
\* a conversion, or a call of _source_handler
UpdateFromSourceStep == pc = "new" \/ nchange' = nchange + 1

\* C39: only update_from_source changes which hashes the document holds and
\* their order. A step that applies a kernel message, handles a reevaluate,
\* restart_kernel, interrupt_kernel or ping request leaves the keys, their
\* order and the cell object of every key as they are, and the constructor
\* leaves the document with the keys update_from_source gave it, whatever the
\* page it then loads holds
C39_OnlySourceChangesEntries ==
    [][ /\ ~ UpdateFromSourceStep =>
              /\ order' = order
              /\ DOMAIN cells' = DOMAIN cells
              /\ \A h \in DOMAIN cells :
                     /\ cells'[h].hashid = cells[h].hashid
                     /\ cells'[h].born = cells[h].born
                     /\ cells'[h].kind = cells[h].kind
        /\ (pc = "new" /\ pc' = "constructed") =>
              /\ order' = update_from_source(cells, order, last'.input, 0).order
              /\ DOMAIN cells' = Range(order')
              /\ \A h \in DOMAIN cells' : cells'[h].hashid = h ]_vars

\* the document holds the one cell of its source after the page of a run
\* with two cells was loaded (the cell is hidden and done by it), the cell
\* was reevaluated and the answer applied, the kernel was restarted, and a
\* ping was handled
C39_EntriesKeptThroughRequests ==
    /\ last.op = "ping"
    /\ order = << HashA >>
    /\ DOMAIN cells = { HashA }
    /\ "hide" \in cells[HashA].flags
    /\ Len(hashids) = 1
    /\ hashids[1] = HashA
    /\ applied[1].idle
    /\ \E i \in DOMAIN msg_queue : msg_queue[i] = Starting

\* the document holds the cell of the changed source in its place after the
\* kernel was interrupted while it ran the cell
C39_InterruptedCellInPlace ==
    /\ order = << HashB >>
    /\ cells[HashB]._error = Some(ansi_convert(Interrupted(1)))

-----------------------------------------------------------------------------
(* Kernel.run and the shutdown of the kernel *)

\* the task of Kernel.run has ended
RunExited == run.at \in { "raised", "cancelled" }

\* C40: whenever Kernel.run ends after the kernel process was started, by its
\* cancellation or by the error of one of its three workers, the shutdown of
\* the kernel has been requested by then: the task leaves await gather only
\* through the shutdown, and a kernel that was started is never found
\* running beside a task that has ended
C40_ShutdownBeforeExit ==
    /\ [] ((RunExited /\ run.kernel # "none") => run.kernel = "shutdown")
    /\ [][ (run.at = "gather" /\ run'.at # "gather") =>
               /\ run.kernel = "started"
               /\ run'.kernel = "shutdown"
               /\ RunExited' ]_vars
    /\ [][ run.kernel = "shutdown" => run'.kernel = "shutdown" ]_vars

\* the handler raised in _receiver for a message of a type the document does
\* not handle: the task of run has ended with the error and the kernel is
\* shut down, while the two readers are still running
C40_ShutdownAfterWorkerRaised ==
    /\ run.at = "raised"
    /\ run.kernel = "shutdown"
    /\ receiver = "dead"
    /\ last.op = "kernel"
    /\ last.error # NoError
    /\ run.iopub = "running"
    /\ run.shell = "running"

\* the task was cancelled while it awaited its workers: they are cancelled
\* and the kernel is shut down
C40_ShutdownAfterCancel ==
    /\ run.at = "cancelled"
    /\ run.kernel = "shutdown"
    /\ receiver = "stopped"
    /\ run.iopub = "cancelled"
    /\ Len(hashids) = 1

\* the task ended without a shutdown: the kernel process was never started
C40_NoShutdownWithoutKernel ==
    /\ RunExited
    /\ run.kernel = "none"

=============================================================================
